---- MODULE Spec2Model ----
(***************************************************************************)
(* A model of the @nis2shield/core session-security toolkit:               *)
(*   - SessionGuardian  (idle / activity monitor with its timers),         *)
(*   - CryptoService    (lazily generated AES-GCM key, encrypt / decrypt), *)
(*   - SecureStorage    (encrypted key-value store over a backend),        *)
(*   - TelemetryReporter (incident delivery with retries and a backlog).   *)
(* Each component has its own specifications (SpecGuardian, SpecThrottle;  *)
(* SpecCrypto, SpecTamper, SpecRevoke, SpecRead, SpecWrite, SpecStorage;   *)
(* SpecTelemetry), in which the variables of the other components stay at  *)
(* their initial values.                                                   *)
(***************************************************************************)
EXTENDS Integers, Sequences, FiniteSets

\* ---------------------------------------------------------------- bounds

\* The clock runs from 0 to MaxTicks * TickMs.
MaxTicks == 5
\* Largest number of browser timers (timeout and warning delays) pending at once.
MaxTimers == 3

\* Calls of CryptoService / SecureStorage in flight at once.
MaxTasks == 2
\* Key generations (crypto.subtle.generateKey calls).
MaxGen == 2
\* Encryptions (IVs drawn by crypto.getRandomValues).
MaxIv == 2
\* Incidents reported to the TelemetryReporter.
MaxIncidents == 2
\* Drain loops (processQueue activations) that the model can hold at once.
MaxLoops == 2
\* Fetches counted per incident.
MaxAttempts == 4
\* Handler functions passed to on() and off().
MaxHandlers == 2
\* on() and off() calls of a run.
MaxCalls == 4
\* idle and active events remembered.
MaxTransitions == 2

\* The clock's granularity: every delay of the configurations below is a
\* multiple of it, so that no timer deadline falls between two clock values.
TickMs == 30 * 1000
MaxTime == MaxTicks * TickMs
\* Short delays (of ShortMs each) that may follow one another after a tick,
\* and the ticks of a run with short delays.
MaxShort == 1
MaxShortTicks == 3

\* ------------------------------------------------------------- constants

DEFAULT_ACTIVITY_EVENTS == {"mousedown", "mousemove", "keydown", "scroll", "touchstart"}
DEFAULT_THROTTLE_MS == 1000
DEFAULT_TIMEOUT_MINUTES == 15
\* resetTimer: const warningMs = timeoutMs - 60000
WARNING_LEAD_MS == 60000
\* this.timer = null
NoTimer == 0

\* CryptoService: this.key = null, this.keyPromise = null
NoKey == 0
NoPromise == 0
IV_LENGTH == 12

\* TelemetryReporter: maxRetries: config.maxRetries ?? 3
DEFAULT_MAX_RETRIES == 3

\* The configurations explored: a timeout equal to the warning lead (no
\* warning is scheduled) and one above it; the default throttle and one that
\* spans two clock ticks.
TimeoutMinutesChoices == {1, 2}
ThrottleMsChoices == {DEFAULT_THROTTLE_MS, 2 * TickMs}
\* The delay between two activity signals in quick succession, and the
\* throttles explored with it: one equal to that delay and the default.
ShortMs == 10
ShortThrottleMsChoices == {ShortMs, DEFAULT_THROTTLE_MS}

VARIABLES
    \* ---- SessionGuardian
    config,        \* this.config: idleTimeoutMinutes, activityEvents, activityThrottleMs
    now,           \* Date.now()
    lastActivity,  \* this.lastActivity
    isIdle,        \* this.isIdle
    isRunning,     \* this.isRunning
    timer,         \* this.timer: NoTimer or a timer id
    timers,        \* the browser's pending setTimeout entries: [id, set, at, kind]
                   \* (set: when setTimeout was called, at: the deadline)
    domListeners,  \* DOM event types on which a bound handler is registered
    hidden,        \* document.hidden
    emitted,       \* the events emitted by the last step, in order
    warningSeconds, \* the adapters' warning value (warning$ of the Angular service,
                   \* warningSeconds of the Vue composable): <<>> for null, or <<n>>
    transitions,   \* history: the last idle / active events emitted, oldest first
    \* ---- history of the SessionGuardian run (read by the properties only)
    quietRun,      \* <<>>, or <<[t0, clean, idleAt, warnAt]>>: a start() at t0 with no
                   \* call or signal since, and when idle / warning were emitted since
    arm,           \* <<>>, or <<[at, quiet, idleAt]>>: the last re-arm by reset() or an
                   \* accepted activity signal on a running monitor; quiet: no call or
                   \* signal since; idleAt: when idle was emitted since
    stopReturned,  \* <<>>, or <<[cancelled]>>: stop() has returned and start() has not
                   \* been called since; cancelled: the deadlines of the timeouts that
                   \* stop() cancelled
    resetWhileStopped, \* reset() was called on a stopped monitor since it last ran
    armedAt,       \* when resetTimer() was last called (-1: never)
    lastCall,      \* <<>>, or <<[op, running, idle]>>: the last step was a call of
                   \* start(), stop() or reset() on a monitor that was running / idle
    signal,        \* <<>>, or <<[at, rearmed, updated]>>: the last call of
                   \* handleActivity(): when, whether it re-armed the timeout, and
                   \* when handleActivity() last assigned lastActivity (-1: never)
    \* ---- CryptoService
    key,           \* this.key: NoKey or the key of generation g (1, 2, ...)
    keyPromise,    \* this.keyPromise: NoPromise or the promise of generation g
    genCount,      \* crypto.subtle.generateKey calls made so far
    ivCount,       \* encryptions begun so far (each draws its own random IV)
    tasks,         \* the asynchronous calls in flight
    done,          \* the calls that the last step finished, with their results
    \* ---- SecureStorage
    enumerable,    \* whether the backend exposes length and key(index)
    backend,       \* the backend: backend key -> stored item
    lastWrite,     \* <<>>, or <<[bkey, item, k, json]>>: the setItem of the last step
    gone,          \* history: the store keys k for which remove(k) has returned
                   \* and no set(k, ..) has been called since
    removed,       \* <<>>, or <<[by, k, before]>>: the last step was clear() or
                   \* remove(k), called with the backend as in before
    \* ---- history of the CryptoService / SecureStorage run
    everCleared,   \* clearKey() has been called
    staleGens,     \* the generations begun before the last clearKey()
    held,          \* the payloads that encrypt() calls have returned
    produced,      \* the IVs of the payloads that encrypt() / set() calls have made
    intact,        \* those among them whose encrypt() began after the last clearKey()
    revoked,       \* those among them returned before some clearKey()
    settled,       \* store key -> <<>>, or <<v>>: a set(k, v) has resolved, and no
                   \* clearKey(), remove(k), clear() or other set(k, ..) was called
                   \* or in flight since it began
    \* ---- TelemetryReporter
    reporterConfig, \* this.config: retry, maxRetries
    queue,         \* this.queue: the incidents of the backlog, oldest first
    isProcessing,  \* this.isProcessing
    reports,       \* incident -> the report() call made for it and its send():
                   \* [pc, attempt, res]
    loops,         \* the processQueue() activations: [pc, inc, attempt]
    \* ---- history of the TelemetryReporter run
    attempts,      \* incident -> the fetches made for it so far
    delivered,     \* the incidents that have had an ok response
    lastFetch,     \* <<>>, or <<[inc, by, attempt, outcome, processing, wait]>>: the last
                   \* step was the end of a fetch made by the report() call or by
                   \* a drain loop, with isProcessing as it was before
    \* ---- calls of functions that read no state of their object
    input,         \* the arguments of the call
    output,        \* <<>>, or <<r>>: the call has returned r
    \* ---- SessionGuardian's event listeners
    listeners,     \* this.listeners: event type -> its handlers in insertion order
    invoked,       \* <<>>, or <<[ev, handlers]>>: the last step was emit(ev), which
                   \* called these handlers in this order
    calls          \* history: the on() and off() calls made so far, [op, ev, handler]

guardianVars == <<config, now, lastActivity, isIdle, isRunning, timer, timers,
                  domListeners, hidden, emitted, warningSeconds, transitions,
                  quietRun, arm, stopReturned, resetWhileStopped, armedAt, lastCall, signal>>

cryptoVars == <<key, keyPromise, genCount, ivCount, tasks, done, enumerable, backend,
                lastWrite, removed, gone, everCleared, staleGens, held, produced, intact, revoked, settled>>

telemetryVars == <<reporterConfig, queue, isProcessing, reports, loops, attempts, delivered,
                   lastFetch>>

callVars == <<input, output>>

listenerVars == <<listeners, invoked, calls>>

vars == <<guardianVars, cryptoVars, telemetryVars, callVars, listenerVars>>

\* ------------------------------------------------------- SessionGuardian

TimeoutMs == config.idleTimeoutMinutes * 60 * 1000

\* A warning lead of 30 seconds instead of 60.
WarningMs_HalfLead(timeoutMs) == timeoutMs - 30000

\* resetTimer: const warningMs = timeoutMs - 60000
WarningMs(timeoutMs) == timeoutMs - WARNING_LEAD_MS

Event(ev, data) == [ev |-> ev, data |-> data]
NoData == [none |-> TRUE]

\* The times of the events of kind ev among evs, all emitted at time t.
RECURSIVE Times(_, _, _)
Times(evs, ev, t) ==
    IF evs = <<>> THEN <<>>
    ELSE (IF Head(evs).ev = ev THEN <<t>> ELSE <<>>) \o Times(Tail(evs), ev, t)

\* The smallest timer id that neither a pending timer nor this.timer holds.
UsedIds(ts, tm) == {x.id : x \in ts} \cup {tm}
FreshId(ts, tm) ==
    CHOOSE n \in 1..(MaxTimers + 2) :
        /\ n \notin UsedIds(ts, tm)
        /\ \A m \in 1..(n - 1) : m \in UsedIds(ts, tm)

\* clearTimeout(id)
ClearTimeout(ts, id) == {x \in ts : x.id # id}

\* resetTimer(): the browser's timers after the call.
WarningScheduled(ts, tm, t, timeoutMs) ==
    IF WarningMs(timeoutMs) > 0
    THEN ts \cup {[id |-> FreshId(ts, tm), set |-> t, at |-> t + WarningMs(timeoutMs),
                     kind |-> "warning"]}
    ELSE ts
\* resetTimer() that schedules the warning delay only.
ResetTimerTimers_WarningOnly(ts, tm, t, timeoutMs) ==
    WarningScheduled(ClearTimeout(ts, tm), tm, t, timeoutMs)

\* resetTimer() that also cancels the warning delays still pending.
ResetTimerTimers_NoStaleWarning(ts, tm, t, timeoutMs) ==
    LET cleared == {x \in ts : x.id # tm /\ x.kind # "warning"}
        warned == WarningScheduled(cleared, tm, t, timeoutMs)
    IN  warned \cup {[id |-> FreshId(warned, tm), set |-> t, at |-> t + timeoutMs, kind |-> "idle"]}

\* resetTimer() without "if (this.timer) clearTimeout(this.timer)".
ResetTimerTimers_KeepsOld(ts, tm, t, timeoutMs) ==
    LET warned == WarningScheduled(ts, tm, t, timeoutMs)
    IN  warned \cup {[id |-> FreshId(warned, tm), set |-> t, at |-> t + timeoutMs, kind |-> "idle"]}

ResetTimerTimers(ts, tm, t, timeoutMs) ==
    LET cleared == IF tm # NoTimer THEN ClearTimeout(ts, tm) ELSE ts
        warned == WarningScheduled(cleared, tm, t, timeoutMs)
    IN  warned \cup {[id |-> FreshId(warned, tm), set |-> t, at |-> t + timeoutMs, kind |-> "idle"]}
\* resetTimer(): this.timer after the call.
ResetTimerId(ts, tm, t, timeoutMs) ==
    LET cleared == IF tm # NoTimer THEN ClearTimeout(ts, tm) ELSE ts
        warned == WarningScheduled(cleared, tm, t, timeoutMs)
    IN  FreshId(warned, tm)
\* The model's cap on pending timers leaves room for one more arming.
CanArm == Cardinality(ClearTimeout(timers, timer)) + 2 <= MaxTimers

\* handleActivity() that ignores every signal.
Throttled_Always(t, last, throttleMs) == TRUE

\* handleActivity() without the throttle.
Throttled_Never(t, last, throttleMs) == FALSE

\* handleActivity: if (now - this.lastActivity < this.config.activityThrottleMs) return
Throttled(t, last, throttleMs) == t - last < throttleMs

\* triggerIdle() without "if (this.isIdle) return".
TriggerIdleEvents_Again(idle, last) ==
    <<Event("idle", [idleSince |-> last, timeoutMinutes |-> config.idleTimeoutMinutes])>>

\* triggerIdle(): the events it emits.
TriggerIdleEvents(idle, last) ==
    IF idle THEN <<>>
    ELSE <<Event("idle", [idleSince |-> last, timeoutMinutes |-> config.idleTimeoutMinutes])>>

\* reset() and handleActivity(): if (this.isIdle) { this.isIdle = false; this.emit('active') }
ActiveEvents(idle) == IF idle THEN <<Event("active", NoData)>> ELSE <<>>

\* The warning callback: if (!this.isIdle && this.isRunning) emit('warning', ...)
WarningEvents(idle, running) ==
    IF ~idle /\ running THEN <<Event("warning", [secondsRemaining |-> 60])>> ELSE <<>>

\* History: the last MaxTransitions elements of q.
Window(q) == IF Len(q) <= MaxTransitions THEN q ELSE SubSeq(q, Len(q) - MaxTransitions + 1, Len(q))
\* The idle and active events among evs, by name.
IdleActive(evs) ==
    LET q == SelectSeq(evs, LAMBDA x : x.ev \in {"idle", "active"})
    IN  [i \in DOMAIN q |-> q[i].ev]

\* The adapters' handlers of active and warning (the handler of idle leaves
\* the warning value alone): the value after the events evs, in their order.
RECURSIVE WarningValue(_, _)
WarningValue(w, evs) ==
    IF evs = <<>> THEN w
    ELSE WarningValue(CASE Head(evs).ev = "active" -> <<>>
                        [] Head(evs).ev = "warning" -> <<Head(evs).data.secondsRemaining>>
                        [] OTHER -> w,
                      Tail(evs))

\* emit(): the events reach the handlers that the adapter registered.
Emit(evs) ==
    /\ emitted' = evs
    /\ warningSeconds' = WarningValue(warningSeconds, evs)
    /\ transitions' = Window(transitions \o IdleActive(evs))

\* History: a call or signal ends the quiet stretch after the last re-arm.
Disturbed(a) == IF a = <<>> THEN <<>> ELSE <<[a[1] EXCEPT !.quiet = FALSE]>>
\* History: the events evs, emitted now, are added to the records.
ArmSaw(a, evs) ==
    IF a = <<>> THEN <<>> ELSE <<[a[1] EXCEPT !.idleAt = @ \o Times(evs, "idle", now)]>>
QuietRunSaw(q, evs) ==
    IF q = <<>> THEN <<>>
    ELSE <<[q[1] EXCEPT !.idleAt = @ \o Times(evs, "idle", now),
                        !.warnAt = @ \o Times(evs, "warning", now)]>>

\* getTimeRemaining() without Math.max(0, ...).
GetTimeRemaining_NoMax == TimeoutMs - (now - lastActivity)

\* getTimeRemaining()
GetTimeRemaining ==
    LET elapsed == now - lastActivity
        timeout == config.idleTimeoutMinutes * 60 * 1000
    IN  IF timeout - elapsed > 0 THEN timeout - elapsed ELSE 0

\* The fields after construction.
Constructed ==
    /\ now = 0
    /\ lastActivity = 0
    /\ isIdle = FALSE
    /\ isRunning = FALSE
    /\ timer = NoTimer
    /\ timers = {}
    /\ domListeners = {}
    /\ hidden = FALSE
    /\ emitted = <<>>
    /\ warningSeconds = <<>>
    /\ transitions = <<>>
    /\ quietRun = <<>>
    /\ arm = <<>>
    /\ stopReturned = <<>>
    /\ resetWhileStopped = FALSE
    /\ armedAt = -1
    /\ lastCall = <<>>
    /\ signal = <<>>

InitGuardian ==
    /\ config \in [idleTimeoutMinutes : TimeoutMinutesChoices,
                   activityEvents : {DEFAULT_ACTIVITY_EVENTS},
                   activityThrottleMs : ThrottleMsChoices]
    /\ Constructed

\* Construction with a timeout of two minutes and the default throttle.
InitTwoMinutes ==
    /\ config \in [idleTimeoutMinutes : {2},
                   activityEvents : {DEFAULT_ACTIVITY_EVENTS},
                   activityThrottleMs : {DEFAULT_THROTTLE_MS}]
    /\ Constructed

\* Construction with a throttle of ShortThrottleMsChoices and a timeout of one
\* minute (no warning is scheduled).
InitThrottle ==
    /\ config \in [idleTimeoutMinutes : {1},
                   activityEvents : {DEFAULT_ACTIVITY_EVENTS},
                   activityThrottleMs : ShortThrottleMsChoices]
    /\ Constructed

\* start() without "if (this.isRunning) return".
Start_Again ==
    /\ UNCHANGED <<cryptoVars, telemetryVars, callVars, listenerVars>>
    /\ CanArm
    /\ isRunning' = TRUE
    /\ domListeners' = config.activityEvents \cup {"visibilitychange"}
    /\ timers' = ResetTimerTimers(timers, timer, now, TimeoutMs)
    /\ timer' = ResetTimerId(timers, timer, now, TimeoutMs)
    /\ armedAt' = now
    /\ quietRun' = <<[t0 |-> now, idleAt |-> <<>>, warnAt |-> <<>>,
                      clean |-> ~isIdle /\ \A x \in timers : x.kind # "warning"]>>
    /\ Emit(<<>>)
    /\ stopReturned' = <<>>
    /\ resetWhileStopped' = FALSE
    /\ lastCall' = <<[op |-> "start", running |-> isRunning, idle |-> isIdle]>>
    /\ UNCHANGED <<config, now, lastActivity, isIdle, hidden, arm, signal>>

\* start() that also clears isIdle.
Start_ClearsIdle ==
    /\ UNCHANGED <<cryptoVars, telemetryVars, callVars, listenerVars>>
    /\ IF isRunning
       THEN UNCHANGED <<isRunning, domListeners, timer, armedAt, timers, quietRun, isIdle>>
       ELSE /\ CanArm
            /\ isRunning' = TRUE
            /\ isIdle' = FALSE
            /\ domListeners' = config.activityEvents \cup {"visibilitychange"}
            /\ timers' = ResetTimerTimers(timers, timer, now, TimeoutMs)
            /\ timer' = ResetTimerId(timers, timer, now, TimeoutMs)
            /\ armedAt' = now
            /\ quietRun' = <<[t0 |-> now, idleAt |-> <<>>, warnAt |-> <<>>,
                              clean |-> ~isIdle /\ \A x \in timers : x.kind # "warning"]>>
    /\ Emit(<<>>)
    /\ stopReturned' = <<>>
    /\ resetWhileStopped' = FALSE
    /\ lastCall' = <<[op |-> "start", running |-> isRunning, idle |-> isIdle]>>
    /\ UNCHANGED <<config, now, lastActivity, hidden, arm, signal>>

\* start()
Start ==
    /\ UNCHANGED <<cryptoVars, telemetryVars, callVars, listenerVars>>
    /\ IF isRunning
       THEN UNCHANGED <<isRunning, domListeners, timer, armedAt, timers, quietRun>>
       ELSE /\ CanArm
            /\ isRunning' = TRUE
            /\ domListeners' = config.activityEvents \cup {"visibilitychange"}
            /\ timers' = ResetTimerTimers(timers, timer, now, TimeoutMs)
            /\ timer' = ResetTimerId(timers, timer, now, TimeoutMs)
            /\ armedAt' = now
            /\ quietRun' = <<[t0 |-> now, idleAt |-> <<>>, warnAt |-> <<>>,
                              clean |-> ~isIdle /\ \A x \in timers : x.kind # "warning"]>>
    /\ Emit(<<>>)
    /\ stopReturned' = <<>>
    /\ resetWhileStopped' = FALSE
    /\ lastCall' = <<[op |-> "start", running |-> isRunning, idle |-> isIdle]>>
    /\ UNCHANGED <<config, now, lastActivity, isIdle, hidden, arm, signal>>

\* stop() without clearTimeout(this.timer).
Stop_KeepsTimer ==
    /\ UNCHANGED <<cryptoVars, telemetryVars, callVars, listenerVars>>
    /\ IF ~isRunning
       THEN UNCHANGED <<isRunning, domListeners, timer, armedAt>>
       ELSE /\ isRunning' = FALSE
            /\ timer' = NoTimer
            /\ armedAt' = armedAt
            /\ domListeners' = {}
    /\ timers' = timers
    /\ Emit(<<>>)
    /\ stopReturned' =
          <<[cancelled |-> IF stopReturned = <<>> THEN {} ELSE stopReturned[1].cancelled]>>
    /\ quietRun' = <<>>
    /\ arm' = Disturbed(arm)
    /\ lastCall' = <<[op |-> "stop", running |-> isRunning, idle |-> isIdle]>>
    /\ UNCHANGED <<config, now, lastActivity, isIdle, hidden, resetWhileStopped, signal>>

\* stop()
Stop ==
    /\ UNCHANGED <<cryptoVars, telemetryVars, callVars, listenerVars>>
    /\ IF ~isRunning
       THEN UNCHANGED <<isRunning, domListeners, timer, armedAt, timers>>
       ELSE /\ isRunning' = FALSE
            /\ timers' = IF timer # NoTimer THEN ClearTimeout(timers, timer) ELSE timers
            /\ timer' = NoTimer
            /\ armedAt' = armedAt
            /\ domListeners' = {}
    /\ Emit(<<>>)
    /\ stopReturned' =
          <<[cancelled |-> (IF stopReturned = <<>> THEN {} ELSE stopReturned[1].cancelled)
                           \cup {x.at : x \in timers \ timers'}]>>
    /\ quietRun' = <<>>
    /\ arm' = Disturbed(arm)
    /\ lastCall' = <<[op |-> "stop", running |-> isRunning, idle |-> isIdle]>>
    /\ UNCHANGED <<config, now, lastActivity, isIdle, hidden, resetWhileStopped, signal>>

\* reset() that re-arms the timeout of a running monitor only.
Reset_WhenRunning ==
    /\ UNCHANGED <<cryptoVars, telemetryVars, callVars, listenerVars>>
    /\ CanArm
    /\ lastActivity' = now
    /\ isIdle' = FALSE
    /\ Emit(ActiveEvents(isIdle))
    /\ timers' = IF isRunning THEN ResetTimerTimers(timers, timer, now, TimeoutMs) ELSE timers
    /\ timer' = IF isRunning THEN ResetTimerId(timers, timer, now, TimeoutMs) ELSE timer
    /\ armedAt' = IF isRunning THEN now ELSE armedAt
    /\ quietRun' = <<>>
    /\ arm' = IF isRunning
              THEN <<[at |-> now, quiet |-> TRUE, idleAt |-> <<>>]>>
              ELSE Disturbed(arm)
    /\ resetWhileStopped' = (resetWhileStopped \/ ~isRunning)
    /\ lastCall' = <<[op |-> "reset", running |-> isRunning, idle |-> isIdle]>>
    /\ UNCHANGED <<config, now, isRunning, domListeners, hidden, stopReturned, signal>>

\* reset()
Reset ==
    /\ UNCHANGED <<cryptoVars, telemetryVars, callVars, listenerVars>>
    /\ CanArm
    /\ lastActivity' = now
    /\ isIdle' = FALSE
    /\ Emit(ActiveEvents(isIdle))
    /\ timers' = ResetTimerTimers(timers, timer, now, TimeoutMs)
    /\ timer' = ResetTimerId(timers, timer, now, TimeoutMs)
    /\ armedAt' = now
    /\ quietRun' = <<>>
    /\ arm' = IF isRunning
              THEN <<[at |-> now, quiet |-> TRUE, idleAt |-> <<>>]>>
              ELSE Disturbed(arm)
    /\ resetWhileStopped' = (resetWhileStopped \/ ~isRunning)
    /\ lastCall' = <<[op |-> "reset", running |-> isRunning, idle |-> isIdle]>>
    /\ UNCHANGED <<config, now, isRunning, domListeners, hidden, stopReturned, signal>>

\* handleActivity(): the guardian's fields and timers after the call, given
\* the events already emitted by the caller in the same step.
HandleActivity(before) ==
    IF Throttled(now, lastActivity, config.activityThrottleMs)
    THEN /\ Emit(before)
         /\ UNCHANGED <<lastActivity, isIdle, timer, armedAt, timers>>
         /\ arm' = Disturbed(arm)
         /\ signal' = <<[at |-> now, rearmed |-> FALSE,
                         updated |-> IF signal = <<>> THEN -1 ELSE signal[1].updated]>>
    ELSE /\ CanArm
         /\ lastActivity' = now
         /\ isIdle' = FALSE
         /\ Emit(before \o ActiveEvents(isIdle))
         /\ timers' = ResetTimerTimers(timers, timer, now, TimeoutMs)
         /\ timer' = ResetTimerId(timers, timer, now, TimeoutMs)
         /\ armedAt' = now
         /\ arm' = <<[at |-> now, quiet |-> TRUE, idleAt |-> <<>>]>>
         /\ signal' = <<[at |-> now, rearmed |-> TRUE, updated |-> now]>>

\* A DOM activity event of type e reaches the bound handler.
ActivitySignal(e) ==
    /\ UNCHANGED <<cryptoVars, telemetryVars, callVars, listenerVars>>
    /\ e \in domListeners \ {"visibilitychange"}
    /\ HandleActivity(<<>>)
    /\ quietRun' = <<>>
    /\ lastCall' = <<>>
    /\ UNCHANGED <<config, now, isRunning, domListeners, hidden,
                   stopReturned, resetWhileStopped>>

\* handleVisibilityChange() that takes the idle branch whatever the time elapsed.
CatchUp_Early == ~isIdle

\* handleVisibilityChange() that never takes the idle branch.
CatchUp_Never == FALSE

\* handleVisibilityChange: if (elapsed >= timeout && !this.isIdle)
CatchUp == now - lastActivity >= TimeoutMs /\ ~isIdle

\* The document's visibility changes; handleVisibilityChange() runs when the
\* listener is registered.
VisibilityChange ==
    /\ UNCHANGED <<cryptoVars, telemetryVars, callVars, listenerVars>>
    /\ hidden' = ~hidden
    /\ IF "visibilitychange" \notin domListeners
       THEN /\ Emit(<<>>)
            /\ UNCHANGED <<lastActivity, isIdle, timer, armedAt, timers, quietRun, arm, signal>>
       ELSE LET vis == <<Event("visibility-change", [hidden |-> hidden'])>> IN
            /\ quietRun' = <<>>
            /\ IF hidden'
               THEN /\ Emit(vis)
                    /\ UNCHANGED <<lastActivity, isIdle, timer, armedAt, timers, signal>>
                    /\ arm' = Disturbed(arm)
               ELSE IF CatchUp
                    THEN /\ Emit(vis \o TriggerIdleEvents(isIdle, lastActivity))
                         /\ isIdle' = TRUE
                         /\ UNCHANGED <<lastActivity, timer, armedAt, timers, signal>>
                         /\ arm' = Disturbed(ArmSaw(arm, TriggerIdleEvents(isIdle, lastActivity)))
                    ELSE HandleActivity(vis)
    /\ lastCall' = <<>>
    /\ UNCHANGED <<config, now, isRunning, domListeners, stopReturned, resetWhileStopped>>

\* A pending timer whose deadline has come and that no other due timer precedes.
Due(x) == x.at <= now /\ \A y \in timers : y.at >= x.at

\* The timeout callback: () => this.triggerIdle()
IdleTimerFires ==
    \E x \in timers :
        /\ UNCHANGED <<cryptoVars, telemetryVars, callVars, listenerVars>>
        /\ x.kind = "idle"
        /\ Due(x)
        /\ timers' = timers \ {x}
        /\ Emit(TriggerIdleEvents(isIdle, lastActivity))
        /\ isIdle' = TRUE
        /\ quietRun' = QuietRunSaw(quietRun, TriggerIdleEvents(isIdle, lastActivity))
        /\ arm' = ArmSaw(arm, TriggerIdleEvents(isIdle, lastActivity))
        /\ lastCall' = <<>>
        /\ UNCHANGED <<config, now, lastActivity, isRunning, timer, armedAt, domListeners, hidden,
                       stopReturned, resetWhileStopped, signal>>

\* The warning callback.
WarningTimerFires ==
    \E x \in timers :
        /\ UNCHANGED <<cryptoVars, telemetryVars, callVars, listenerVars>>
        /\ x.kind = "warning"
        /\ Due(x)
        /\ timers' = timers \ {x}
        /\ Emit(WarningEvents(isIdle, isRunning))
        /\ quietRun' = QuietRunSaw(quietRun, WarningEvents(isIdle, isRunning))
        /\ lastCall' = <<>>
        /\ UNCHANGED <<config, now, lastActivity, isIdle, isRunning, timer, armedAt, domListeners,
                       hidden, arm, stopReturned, resetWhileStopped, signal>>

\* Time passes; a timer fires at its deadline, before the clock moves on.
AdvanceTime ==
    /\ UNCHANGED <<cryptoVars, telemetryVars, callVars, listenerVars>>
    /\ now + TickMs <= MaxTime
    /\ \A x \in timers : x.at > now
    /\ now' = now + TickMs
    /\ Emit(<<>>)
    /\ lastCall' = <<>>
    /\ UNCHANGED <<config, lastActivity, isIdle, isRunning, timer, armedAt, timers, domListeners,
                   hidden, quietRun, arm, stopReturned, resetWhileStopped, signal>>

Min(S) == CHOOSE x \in S : \A y \in S : x <= y

\* d ms pass, or less when a timer's deadline comes first: the timer fires at
\* its deadline, before the clock moves on.
Elapse(d) ==
    /\ UNCHANGED <<cryptoVars, telemetryVars, callVars, listenerVars>>
    /\ d = ShortMs => (now % TickMs) < MaxShort * ShortMs
    /\ \A x \in timers : x.at > now
    /\ now' = Min({now + d} \cup {x.at : x \in timers})
    /\ now' <= MaxShortTicks * TickMs
    /\ Emit(<<>>)
    /\ lastCall' = <<>>
    /\ UNCHANGED <<config, lastActivity, isIdle, isRunning, timer, armedAt, timers, domListeners,
                   hidden, quietRun, arm, stopReturned, resetWhileStopped, signal>>

NextGuardian ==
    \/ Start
    \/ Stop
    \/ Reset
    \/ \E e \in DEFAULT_ACTIVITY_EVENTS : ActivitySignal(e)
    \/ VisibilityChange
    \/ IdleTimerFires
    \/ WarningTimerFires
    \/ AdvanceTime

\* The monitor with activity signals in quick succession.
NextThrottle ==
    \/ Start
    \/ Stop
    \/ Reset
    \/ \E e \in {"mousemove", "keydown"} : ActivitySignal(e)
    \/ VisibilityChange
    \/ IdleTimerFires
    \/ \E d \in {ShortMs, TickMs} : Elapse(d)

\* ---------------------------------------------- CryptoService, SecureStorage

TaskIds == 1..MaxTasks

\* The plaintexts passed to encrypt() directly.
Plaintexts == {"", "hello"}

\* The values passed to SecureStorage.set: a string, a number, an array, an object.
Values == {"John Doe", "42", "['a','b']", "{id: 123}"}

\* JSON.stringify(value)
JSONStringify(v) ==
    CASE v = "John Doe" -> "\"John Doe\""
      [] v = "42" -> "42"
      [] v = "['a','b']" -> "[\"a\",\"b\"]"
      [] v = "{id: 123}" -> "{\"id\":123}"

\* A value JSON.stringify throws a TypeError on (a circular structure, a BigInt).
Unserializable == "circular"
StringifyThrows(v) == v = Unserializable

\* JSON.parse(text): <<value>>, or <<>> when it throws a SyntaxError.
JSONParse(text) ==
    IF \E v \in Values : JSONStringify(v) = text
    THEN <<CHOOSE v \in Values : JSONStringify(v) = text>>
    ELSE <<>>

\* SecureStorage: the prefix (constructor default 'nis2_') and the keys used.
Prefix == <<"n", "i", "s", "2", "_">>
StoreKeys == {<<"k">>}
\* Keys of unrelated data sharing the backend.
ForeignKeys == {<<"k">>, <<"o">>}

\* The backend key without the prefix.
BackendKey_NoPrefix(k) == k

\* this.prefix + key
BackendKey(k) == Prefix \o k
BackendKeys == {BackendKey(k) : k \in StoreKeys} \cup ForeignKeys

\* key.startsWith(this.prefix)
StartsWith(bk, pre) == Len(bk) >= Len(pre) /\ SubSeq(bk, 1, Len(pre)) = pre

\* A base64 string, by what atob makes of it: wf = FALSE for a string atob
\* rejects; otherwise the bytes it decodes to: an IV of len bytes (the n-th random
\* draw; 0: some other bytes), or an AES-GCM ciphertext with its tag (of plaintext
\* pt under key k and IV n; ok = FALSE: bytes altered afterwards).
B64Iv(n) == [wf |-> TRUE, len |-> IV_LENGTH, n |-> n]
BadB64Iv == [wf |-> FALSE, len |-> 0, n |-> 0]
B64Ct(k, n, pt) == [wf |-> TRUE, k |-> k, n |-> n, pt |-> pt, ok |-> TRUE]
BadB64Ct == [wf |-> FALSE, k |-> NoKey, n |-> 0, pt |-> "", ok |-> FALSE]

\* EncryptedData { iv, data }
Payload(iv, data) == [iv |-> iv, data |-> data]
NoPayload == Payload(BadB64Iv, BadB64Ct)

\* encrypt(): the payload returned for plaintext pt under key k with IV n.
Encrypted(k, n, pt) == Payload(B64Iv(n), B64Ct(k, n, pt))

\* A payload as some encrypt() call of this service may have returned it.
Genuine(p) ==
    /\ p.iv.wf /\ p.data.wf /\ p.data.ok
    /\ p.iv.len = IV_LENGTH /\ p.iv.n = p.data.n
    /\ p.data.n \in produced

\* What a caller may do to a payload before passing it to decrypt().
Tampered(p) ==
    { [p EXCEPT !.iv = BadB64Iv],        \* iv = 'invalid-iv'
      [p EXCEPT !.data = BadB64Ct],      \* data = 'corrupted-base64-data'
      [p EXCEPT !.iv.n = 0],             \* another 12-byte IV
      [p EXCEPT !.iv.len = 8],           \* an IV of the wrong length
      [p EXCEPT !.data.ok = FALSE] }     \* ciphertext bytes altered

\* A payload encrypted by another CryptoService instance (under another key).
ForeignPayload == Payload(B64Iv(0), B64Ct(NoKey, 0, "hello"))

\* A string held by the backend, by what JSON.parse makes of it: the JSON text
\* of an EncryptedData object, or some other text.
Absent == [kind |-> "absent", text |-> "", pl |-> NoPayload]
Text(s) == [kind |-> "text", text |-> s, pl |-> NoPayload]
\* JSON.stringify(encrypted)
PayloadText(p) == [kind |-> "payload", text |-> "", pl |-> p]
\* The JSON text of an object that lacks iv or data.
ObjectText == [kind |-> "object", text |-> "", pl |-> NoPayload]

\* The result of a finished call.
Res(kind) == [kind |-> kind, str |-> "", keyid |-> NoKey, pl |-> NoPayload]
KeyRes(k) == [Res("key") EXCEPT !.keyid = k]
PayloadRes(p) == [Res("payload") EXCEPT !.pl = p]
StringRes(s) == [Res("string") EXCEPT !.str = s]
ValueRes(v) == [Res("value") EXCEPT !.str = v]
NullRes == Res("null")
VoidRes == Res("void")
\* The call's promise rejects (an exception leaves the async function).
Rejected == Res("rejected")

\* The call's promise rejects with the error e.
RejectedWith(e) == [Rejected EXCEPT !.str = e]

\* set() with a catch block that swallows the error.
SetCatch_Swallows(r) == IF r.kind = "rejected" THEN VoidRes ELSE r

\* set(): catch (error) { console.error(...); throw error; }
SetCatch(r) == r

\* crypto.subtle.decrypt(AES-GCM, iv, key, data): <<plaintext>>, or <<>> when
\* it rejects (wrong key, wrong IV, wrong IV length, tag mismatch).
AesGcmDecrypt(k, p) ==
    IF p.data.ok /\ p.data.k = k /\ p.data.n = p.iv.n /\ p.iv.len = IV_LENGTH
    THEN <<p.data.pt>>
    ELSE <<>>

\* decrypt(): base64ToArrayBuffer(encrypted.iv / encrypted.data) throws.
Base64Throws(p) == ~p.iv.wf \/ ~p.data.wf

\* decrypt() with a catch block that rethrows.
DecryptCatch_Rethrows(r) == r

\* decrypt(): catch (error) { console.warn(...); return null; }
DecryptCatch(r) == IF r.kind = "rejected" THEN NullRes ELSE r

\* get(): catch that lets the error through.
GetCatch_Rethrows(r) == r

\* get(): catch (error) { console.warn(...); return null; }
GetCatch(r) == IF r.kind = "rejected" THEN NullRes ELSE r

\* decrypt(): the result once crypto.subtle.decrypt has settled.
DecryptResult(k, p) ==
    DecryptCatch(IF AesGcmDecrypt(k, p) = <<>> THEN Rejected
                 ELSE StringRes(AesGcmDecrypt(k, p)[1]))

\* get(): the result once this.crypto.decrypt(parsed) has resolved to r.
GetResult(r) ==
    GetCatch(IF r.kind = "null" \/ r.str = "" THEN NullRes
             ELSE IF JSONParse(r.str) = <<>> THEN Rejected
             ELSE ValueRes(JSONParse(r.str)[1]))

\* get(): the outcome for an item that is no EncryptedData: "if (!item) return
\* null" for a missing or empty item; JSON.parse(item) throws a SyntaxError for
\* text that is no JSON; for the text "null" parsed.data throws a TypeError;
\* "if (!parsed.data || !parsed.iv) return null" for any other JSON value.
ReadItem(item) ==
    CASE item.kind = "absent" -> NullRes
      [] item.kind = "object" -> NullRes
      [] item.kind = "text" /\ item.text \in {"", "42"} -> NullRes
      [] OTHER -> Rejected

\* get(): the item read passes "if (!item) return null",  JSON.parse and
\* "if (!parsed.data || !parsed.iv) return null".
ReadsPayload(item) == item.kind = "payload"

\* A call slot: pc is "free", "awaitOwn" (awaiting the generation it started),
\* "awaitShared" (awaiting this.keyPromise), "crypto" (awaiting
\* crypto.subtle.encrypt / decrypt) or "done" (finished in this step).
NoTask ==
    [pc |-> "free", op |-> "none", pt |-> "", pl |-> NoPayload, k |-> <<>>, v |-> "",
     key |-> NoKey, wait |-> NoPromise, iv |-> 0, res |-> VoidRes,
     raised |-> <<>>,      \* <<e>>: the error e was thrown inside the call
     \* history, read by the properties only:
     old |-> FALSE,        \* began before the last clearKey()
     expect |-> <<>>,      \* <<x>>: the result the round-trip claims promise
     revoked |-> FALSE,    \* a decrypt / get of a payload returned before a clearKey()
     keyAtCall |-> NoKey,  \* this.key when the call began
     clean |-> FALSE]      \* a set(k, v) with no disturbing call since it began

Free(t) == tasks[t].pc = "free"
\* A new call takes the first free slot.
FirstFree(t) == Free(t) /\ \A u \in TaskIds : u < t => ~Free(u)

InFlight(t) == tasks[t].pc \in {"awaitOwn", "awaitShared", "crypto"}
Pending(g) == \E t \in TaskIds : tasks[t].pc = "awaitOwn" /\ tasks[t].wait = g

\* getKey() without "if (this.keyPromise) return this.keyPromise".
GetKeyPath_NoShare == IF key # NoKey THEN "cached" ELSE "generate"

\* getKey(): the branch taken.
GetKeyPath ==
    IF key # NoKey THEN "cached"
    ELSE IF keyPromise # NoPromise THEN "shared"
    ELSE "generate"

\* A call resumes with the key k that its "await this.getKey()" resolved to.
WithKey(r, k) ==
    LET got == [r EXCEPT !.key = k, !.wait = NoPromise] IN
    CASE r.op = "getKey" -> [got EXCEPT !.pc = "done", !.res = KeyRes(k)]
      [] r.op \in {"encrypt", "set"} -> [got EXCEPT !.pc = "crypto"]
      [] r.op = "decrypt" ->
            IF Base64Throws(r.pl)
            THEN [got EXCEPT !.pc = "done", !.res = DecryptCatch(Rejected)]
            ELSE [got EXCEPT !.pc = "crypto"]
      [] r.op = "get" ->
            IF Base64Throws(r.pl)
            THEN [got EXCEPT !.pc = "done", !.res = GetResult(DecryptCatch(Rejected))]
            ELSE [got EXCEPT !.pc = "crypto"]

\* What is kept of a finished call.
Report(r) ==
    [op |-> r.op, res |-> r.res, key |-> r.key, pl |-> r.pl, keyAtCall |-> r.keyAtCall,
     raised |-> r.raised,
     old |-> r.old, expect |-> r.expect, revoked |-> r.revoked]

\* The step ends with the slots as in ts: the calls that finished are
\* reported in done and their slots are free again.
Settle(ts) ==
    /\ tasks' = [t \in TaskIds |-> IF ts[t].pc = "done" THEN NoTask ELSE ts[t]]
    /\ done' = {Report(ts[t]) : t \in {u \in TaskIds : ts[u].pc = "done"}}

\* The synchronous part of "await this.getKey()" in the new call r of slot t.
AcquireKey(t, r) ==
    LET call == [r EXCEPT !.keyAtCall = key] IN
    CASE GetKeyPath = "cached" ->
            /\ Settle([tasks EXCEPT ![t] = WithKey(call, key)])
            /\ UNCHANGED <<key, keyPromise, genCount>>
      [] GetKeyPath = "shared" ->
            /\ Settle([tasks EXCEPT ![t] =
                  IF Pending(keyPromise)
                  THEN [call EXCEPT !.pc = "awaitShared", !.wait = keyPromise]
                  ELSE WithKey(call, keyPromise)])
            /\ UNCHANGED <<key, keyPromise, genCount>>
      [] GetKeyPath = "generate" ->
            /\ genCount < MaxGen
            /\ genCount' = genCount + 1
            /\ keyPromise' = genCount + 1
            /\ Settle([tasks EXCEPT ![t] =
                  [call EXCEPT !.pc = "awaitOwn", !.wait = genCount + 1]])
            /\ UNCHANGED key

InitCrypto ==
    /\ key = NoKey
    /\ keyPromise = NoPromise
    /\ genCount = 0
    /\ ivCount = 0
    /\ tasks = [t \in TaskIds |-> NoTask]
    /\ done = {}
    /\ enumerable \in BOOLEAN
    /\ backend = [bk \in BackendKeys |-> IF bk = <<"o">> THEN Text("other") ELSE Absent]
    /\ lastWrite = <<>>
    /\ removed = <<>>
    /\ gone = {}
    /\ everCleared = FALSE
    /\ staleGens = {}
    /\ held = {}
    /\ produced = {}
    /\ intact = {}
    /\ revoked = {}
    /\ settled = [k \in StoreKeys |-> <<>>]

\* getKey()
CallGetKey(t) ==
    /\ UNCHANGED <<guardianVars, telemetryVars, callVars, listenerVars>>
    /\ FirstFree(t)
    /\ AcquireKey(t, [NoTask EXCEPT !.op = "getKey"])
    /\ lastWrite' = <<>> /\ removed' = <<>> /\ gone' = gone
    /\ UNCHANGED <<ivCount, enumerable, backend,
                   everCleared, staleGens, held, produced, intact, revoked, settled>>

\* encrypt(plaintext)
\* encrypt() that takes the IV the call before it drew.
RandomIv_Reused == IF ivCount = 0 THEN ivCount + 1 ELSE ivCount

\* encrypt: crypto.getRandomValues(new Uint8Array(IV_LENGTH)): the bytes of a
\* new draw from the random source, which no earlier draw returned.
RandomIv == ivCount + 1

\* encrypt(plaintext)
CallEncrypt(t, s) ==
    /\ UNCHANGED <<guardianVars, telemetryVars, callVars, listenerVars>>
    /\ FirstFree(t)
    /\ ivCount < MaxIv
    /\ ivCount' = ivCount + 1
    /\ AcquireKey(t, [NoTask EXCEPT !.op = "encrypt", !.pt = s, !.iv = RandomIv])
    /\ lastWrite' = <<>> /\ removed' = <<>> /\ gone' = gone
    /\ UNCHANGED <<enumerable, backend,
                   everCleared, staleGens, held, produced, intact, revoked, settled>>

\* The payloads a caller can hold: returned by encrypt(), read from the
\* backend, or made elsewhere; and what it can make of them.
HeldPayloads ==
    held
    \cup {backend[bk].pl : bk \in {b \in BackendKeys : backend[b].kind = "payload"}}
    \cup {ForeignPayload}
DecryptInputs == HeldPayloads \cup UNION {Tampered(p) : p \in HeldPayloads}

\* decrypt(encrypted)
CallDecrypt(t, p) ==
    /\ UNCHANGED <<guardianVars, telemetryVars, callVars, listenerVars>>
    /\ FirstFree(t)
    /\ AcquireKey(t, [NoTask EXCEPT
            !.op = "decrypt", !.pl = p,
            !.expect = IF Genuine(p) /\ p.data.n \in intact THEN <<p.data.pt>> ELSE <<>>,
            !.revoked = Genuine(p) /\ p.data.n \in revoked])
    /\ lastWrite' = <<>> /\ removed' = <<>> /\ gone' = gone
    /\ UNCHANGED <<ivCount, enumerable, backend,
                   everCleared, staleGens, held, produced, intact, revoked, settled>>

\* SecureStorage.set(key, value), up to "await this.crypto.encrypt(jsonStr)"
CallSet(t, k, v) ==
    /\ UNCHANGED <<guardianVars, telemetryVars, callVars, listenerVars>>
    /\ FirstFree(t)
    /\ IF StringifyThrows(v)
       THEN /\ Settle([tasks EXCEPT ![t] =
                  [NoTask EXCEPT !.pc = "done", !.op = "set", !.k = k, !.v = v,
                                 !.keyAtCall = key, !.raised = <<"TypeError">>,
                                 !.res = SetCatch(RejectedWith("TypeError"))]])
            /\ UNCHANGED <<key, keyPromise, genCount, ivCount>>
       ELSE /\ ivCount < MaxIv
            /\ ivCount' = ivCount + 1
            /\ LET others == {u \in TaskIds :
                                InFlight(u) /\ tasks[u].op = "set" /\ tasks[u].k = k}
                   mine == [NoTask EXCEPT !.op = "set", !.k = k, !.v = v,
                                          !.pt = JSONStringify(v),
                                          !.iv = RandomIv, !.clean = (others = {})]
               IN  AcquireKey(t, mine)
    /\ settled' = [settled EXCEPT ![k] = <<>>]
    /\ lastWrite' = <<>> /\ removed' = <<>> /\ gone' = gone \ {k}
    /\ UNCHANGED <<enumerable, backend, everCleared, staleGens, held, produced, intact, revoked>>

\* SecureStorage.get(key), up to "await this.crypto.decrypt(parsed)"
CallGet(t, k) ==
    /\ UNCHANGED <<guardianVars, telemetryVars, callVars, listenerVars>>
    /\ FirstFree(t)
    /\ LET item == backend[BackendKey(k)]
           mine == [NoTask EXCEPT !.op = "get", !.k = k, !.pl = item.pl,
                                  !.expect = settled[k],
                                  !.revoked = Genuine(item.pl) /\ item.pl.data.n \in revoked]
       IN  IF ReadsPayload(item)
           THEN AcquireKey(t, mine)
           ELSE /\ Settle([tasks EXCEPT ![t] =
                      [mine EXCEPT !.pc = "done", !.res = GetCatch(ReadItem(item)),
                                   !.keyAtCall = key]])
                /\ UNCHANGED <<key, keyPromise, genCount>>
    /\ lastWrite' = <<>> /\ removed' = <<>> /\ gone' = gone
    /\ UNCHANGED <<ivCount, enumerable, backend,
                   everCleared, staleGens, held, produced, intact, revoked, settled>>

\* crypto.subtle.generateKey of generation g settles: the call that started it
\* resumes at "this.key = await this.keyPromise", and the calls that were
\* returned this.keyPromise resume with the same key.
Generated(g) ==
    /\ UNCHANGED <<guardianVars, telemetryVars, callVars, listenerVars>>
    /\ Pending(g)
    /\ key' = g
    /\ Settle([t \in TaskIds |->
          IF tasks[t].pc \in {"awaitOwn", "awaitShared"} /\ tasks[t].wait = g
          THEN WithKey(tasks[t], g)
          ELSE tasks[t]])
    /\ lastWrite' = <<>> /\ removed' = <<>> /\ gone' = gone
    /\ UNCHANGED <<keyPromise, genCount, ivCount, enumerable, backend,
                   everCleared, staleGens, held, produced, intact, revoked, settled>>

\* crypto.subtle.encrypt / decrypt of call t settles, and the call runs to its end.
CryptoDone(t) ==
    /\ UNCHANGED <<guardianVars, telemetryVars, callVars, listenerVars>>
    /\ tasks[t].pc = "crypto"
    /\ LET r == tasks[t]
           p == Encrypted(r.key, r.iv, r.pt)
       IN  CASE r.op = "encrypt" ->
                   /\ Settle([tasks EXCEPT ![t] = [r EXCEPT !.pc = "done", !.res = PayloadRes(p)]])
                   /\ held' = held \cup {p}
                   /\ produced' = produced \cup {r.iv}
                   /\ intact' = IF r.old THEN intact ELSE intact \cup {r.iv}
                   /\ lastWrite' = <<>> /\ removed' = <<>> /\ gone' = gone
                   /\ UNCHANGED <<backend, settled>>
             [] r.op = "set" ->
                   /\ Settle([tasks EXCEPT ![t] = [r EXCEPT !.pc = "done", !.res = VoidRes]])
                   /\ UNCHANGED held
                   /\ backend' = [backend EXCEPT ![BackendKey(r.k)] = PayloadText(p)]
                   /\ lastWrite' = <<[bkey |-> BackendKey(r.k), item |-> PayloadText(p),
                                      k |-> r.k, json |-> r.pt]>>
                   /\ removed' = <<>> /\ gone' = gone
                   /\ produced' = produced \cup {r.iv}
                   /\ intact' = IF r.old THEN intact ELSE intact \cup {r.iv}
                   /\ settled' = [settled EXCEPT ![r.k] =
                         IF r.clean /\ \A u \in TaskIds \ {t} :
                                          ~(InFlight(u) /\ tasks[u].op = "set" /\ tasks[u].k = r.k)
                         THEN <<r.v>> ELSE <<>>]
             [] r.op = "decrypt" ->
                   /\ Settle([tasks EXCEPT ![t] =
                         [r EXCEPT !.pc = "done", !.res = DecryptResult(r.key, r.pl)]])
                   /\ lastWrite' = <<>> /\ removed' = <<>> /\ gone' = gone
                   /\ UNCHANGED <<backend, held, produced, intact, settled>>
             [] r.op = "get" ->
                   /\ Settle([tasks EXCEPT ![t] =
                         [r EXCEPT !.pc = "done", !.res = GetResult(DecryptResult(r.key, r.pl))]])
                   /\ lastWrite' = <<>> /\ removed' = <<>> /\ gone' = gone
                   /\ UNCHANGED <<backend, held, produced, intact, settled>>
    /\ UNCHANGED <<key, keyPromise, genCount, ivCount, enumerable,
                   everCleared, staleGens, revoked>>

\* crypto.subtle.encrypt of call t rejects: encrypt() rejects with the error,
\* and so does the set() awaiting it, through its catch block.
EncryptFails(t) ==
    /\ UNCHANGED <<guardianVars, telemetryVars, callVars, listenerVars>>
    /\ tasks[t].pc = "crypto"
    /\ tasks[t].op \in {"encrypt", "set"}
    /\ LET r == [tasks[t] EXCEPT !.pc = "done", !.raised = <<"OperationError">>] IN
       Settle([tasks EXCEPT ![t] =
          [r EXCEPT !.res = IF r.op = "set" THEN SetCatch(RejectedWith("OperationError"))
                            ELSE RejectedWith("OperationError")]])
    /\ lastWrite' = <<>> /\ removed' = <<>> /\ gone' = gone
    /\ UNCHANGED <<key, keyPromise, genCount, ivCount, enumerable, backend,
                   everCleared, staleGens, held, produced, intact, revoked, settled>>

\* crypto.subtle.encrypt of the set() call t settles, and this.storage.setItem
\* throws (the backend's quota is exceeded): nothing is written.
SetWriteFails(t) ==
    /\ UNCHANGED <<guardianVars, telemetryVars, callVars, listenerVars>>
    /\ tasks[t].pc = "crypto"
    /\ tasks[t].op = "set"
    /\ Settle([tasks EXCEPT ![t] =
          [tasks[t] EXCEPT !.pc = "done", !.raised = <<"QuotaExceededError">>,
                           !.res = SetCatch(RejectedWith("QuotaExceededError"))]])
    /\ produced' = produced \cup {tasks[t].iv}
    /\ lastWrite' = <<>> /\ removed' = <<>> /\ gone' = gone
    /\ UNCHANGED <<key, keyPromise, genCount, ivCount, enumerable, backend,
                   everCleared, staleGens, held, intact, revoked, settled>>

\* History: a call in flight when clearKey(), remove(k) or clear() is called.
Overtaken(r, byClearKey, ks) ==
    [r EXCEPT !.old = @ \/ byClearKey,
              !.expect = IF byClearKey \/ r.k \in ks THEN <<>> ELSE @,
              !.clean = @ /\ ~byClearKey /\ r.k \notin ks]

\* clearKey() that leaves this.key and this.keyPromise as they are.
ClearKey_KeepsKey ==
    /\ UNCHANGED <<guardianVars, telemetryVars, callVars, listenerVars>>
    /\ everCleared' = TRUE
    /\ staleGens' = 1..genCount
    /\ revoked' = revoked \cup produced
    /\ intact' = {}
    /\ settled' = [k \in StoreKeys |-> <<>>]
    /\ Settle([t \in TaskIds |->
          IF InFlight(t) THEN Overtaken(tasks[t], TRUE, {}) ELSE tasks[t]])
    /\ lastWrite' = <<>> /\ removed' = <<>> /\ gone' = gone
    /\ UNCHANGED <<key, keyPromise, genCount, ivCount, enumerable, backend, held, produced>>

\* clearKey()
ClearKey ==
    /\ UNCHANGED <<guardianVars, telemetryVars, callVars, listenerVars>>
    /\ key' = NoKey
    /\ keyPromise' = NoPromise
    /\ everCleared' = TRUE
    /\ staleGens' = 1..genCount
    /\ revoked' = revoked \cup produced
    /\ intact' = {}
    /\ settled' = [k \in StoreKeys |-> <<>>]
    /\ Settle([t \in TaskIds |->
          IF InFlight(t) THEN Overtaken(tasks[t], TRUE, {}) ELSE tasks[t]])
    /\ lastWrite' = <<>> /\ removed' = <<>> /\ gone' = gone
    /\ UNCHANGED <<genCount, ivCount, enumerable, backend, held, produced>>

\* SecureStorage.remove(key)
Remove(k) ==
    /\ UNCHANGED <<guardianVars, telemetryVars, callVars, listenerVars>>
    /\ backend' = [backend EXCEPT ![BackendKey(k)] = Absent]
    /\ settled' = [settled EXCEPT ![k] = <<>>]
    /\ Settle([t \in TaskIds |->
          IF InFlight(t) THEN Overtaken(tasks[t], FALSE, {k}) ELSE tasks[t]])
    /\ lastWrite' = <<>>
    /\ removed' = <<[by |-> "remove", k |-> k, before |-> backend]>>
    /\ gone' = gone \cup {k}
    /\ UNCHANGED <<key, keyPromise, genCount, ivCount, enumerable,
                   everCleared, staleGens, held, produced, intact, revoked>>

\* What another user of the backend may store under a key of the store.
ForeignItems ==
    {Text(""), Text("not json"), Text("null"), Text("42"), ObjectText}
    \cup {PayloadText(p) : p \in held}
    \cup {PayloadText([p EXCEPT !.data = BadB64Ct]) : p \in held}

\* Another user of the backend calls setItem(prefix + k, item).
ForeignWrite(k, item) ==
    /\ UNCHANGED <<guardianVars, telemetryVars, callVars, listenerVars>>
    /\ backend' = [backend EXCEPT ![BackendKey(k)] = item]
    /\ settled' = [settled EXCEPT ![k] = <<>>]
    /\ Settle([t \in TaskIds |->
          IF InFlight(t) THEN Overtaken(tasks[t], FALSE, {k}) ELSE tasks[t]])
    /\ lastWrite' = <<>> /\ removed' = <<>> /\ gone' = gone
    /\ UNCHANGED <<key, keyPromise, genCount, ivCount, enumerable,
                   everCleared, staleGens, held, produced, intact, revoked>>

\* The keys of the backend in the order of storage.key(index).
RECURSIVE SeqOf(_)
SeqOf(S) ==
    IF S = {} THEN <<>>
    ELSE LET x == CHOOSE y \in S : TRUE IN <<x>> \o SeqOf(S \ {x})
IsPresent(b, bk) == b[bk].kind # "absent"
\* storage.key(i) is StorageKeys(b)[i + 1], storage.length is its length.
StorageKeys(b) == SelectSeq(SeqOf(BackendKeys), LAMBDA bk : IsPresent(b, bk))

\* clear(): keysToRemove, collected by the loop from index i on.
RECURSIVE KeysToRemove(_, _)
KeysToRemove(b, i) ==
    IF i >= Len(StorageKeys(b)) THEN <<>>
    ELSE (IF StartsWith(StorageKeys(b)[i + 1], Prefix)
          THEN <<StorageKeys(b)[i + 1]>> ELSE <<>>) \o KeysToRemove(b, i + 1)

\* clear(): keysToRemove.forEach(key => storage.removeItem(key))
RECURSIVE RemoveAll(_, _)
RemoveAll(b, ks) ==
    IF ks = <<>> THEN b
    ELSE RemoveAll([b EXCEPT ![Head(ks)] = Absent], Tail(ks))

\* clear() that removes every key the backend enumerates.
Cleared_AnyKey(b) ==
    IF enumerable THEN RemoveAll(b, StorageKeys(b)) ELSE b

\* SecureStorage.clear(): the backend afterwards.
Cleared(b) ==
    IF enumerable THEN RemoveAll(b, KeysToRemove(b, 0)) ELSE b

\* SecureStorage.clear()
Clear ==
    /\ UNCHANGED <<guardianVars, telemetryVars, callVars, listenerVars>>
    /\ backend' = Cleared(backend)
    /\ settled' = [k \in StoreKeys |-> <<>>]
    /\ Settle([t \in TaskIds |->
          IF InFlight(t) THEN Overtaken(tasks[t], FALSE, StoreKeys) ELSE tasks[t]])
    /\ lastWrite' = <<>>
    /\ removed' = <<[by |-> "clear", k |-> <<>>, before |-> backend]>>
    /\ gone' = gone
    /\ UNCHANGED <<key, keyPromise, genCount, ivCount, enumerable,
                   everCleared, staleGens, held, produced, intact, revoked>>

\* CryptoService alone: concurrent calls on the payloads it returned and on
\* one of another instance.
NextCrypto ==
    \/ \E t \in TaskIds : CallGetKey(t)
    \/ \E t \in TaskIds, s \in Plaintexts : CallEncrypt(t, s)
    \/ \E t \in TaskIds, p \in HeldPayloads : CallDecrypt(t, p)
    \/ \E g \in 1..MaxGen : Generated(g)
    \/ \E t \in TaskIds : CryptoDone(t)
    \/ ClearKey

\* CryptoService alone: every payload a caller can pass to decrypt().
NextTamper ==
    \/ \E t \in TaskIds : CallEncrypt(t, "hello")
    \/ \E t \in TaskIds, p \in DecryptInputs : CallDecrypt(t, p)
    \/ \E g \in 1..MaxGen : Generated(g)
    \/ \E t \in TaskIds : CryptoDone(t)
    \/ ClearKey

\* CryptoService with a SecureStorage over it: payloads made before a clearKey().
NextRevoke ==
    \/ \E t \in TaskIds : CallEncrypt(t, "hello")
    \/ \E t \in TaskIds, p \in HeldPayloads : CallDecrypt(t, p)
    \/ \E t \in TaskIds, k \in StoreKeys : CallSet(t, k, "John Doe")
    \/ \E t \in TaskIds, k \in StoreKeys : CallGet(t, k)
    \/ \E g \in 1..MaxGen : Generated(g)
    \/ \E t \in TaskIds : CryptoDone(t)
    \/ ClearKey

\* SecureStorage reading a backend that another user writes to as well.
NextRead ==
    \/ \E t \in TaskIds : CallEncrypt(t, "hello")
    \/ \E t \in TaskIds, k \in StoreKeys : CallSet(t, k, "John Doe")
    \/ \E t \in TaskIds, k \in StoreKeys : CallGet(t, k)
    \/ \E g \in 1..MaxGen : Generated(g)
    \/ \E t \in TaskIds : CryptoDone(t)
    \/ ClearKey
    \/ \E k \in StoreKeys, item \in ForeignItems : ForeignWrite(k, item)

\* SecureStorage writing: values that cannot be serialized, encryptions that
\* fail, a backend that refuses the write.
NextWrite ==
    \/ \E t \in TaskIds, k \in StoreKeys, v \in {"John Doe", Unserializable} : CallSet(t, k, v)
    \/ \E g \in 1..MaxGen : Generated(g)
    \/ \E t \in TaskIds : CryptoDone(t)
    \/ \E t \in TaskIds : EncryptFails(t)
    \/ \E t \in TaskIds : SetWriteFails(t)
    \/ ClearKey

\* SecureStorage and the owner of its CryptoService.
NextStorage ==
    \/ \E t \in TaskIds : CallGetKey(t)
    \/ \E t \in TaskIds, k \in StoreKeys, v \in Values : CallSet(t, k, v)
    \/ \E t \in TaskIds, k \in StoreKeys : CallGet(t, k)
    \/ \E g \in 1..MaxGen : Generated(g)
    \/ \E t \in TaskIds : CryptoDone(t)
    \/ ClearKey
    \/ \E k \in StoreKeys : Remove(k)
    \/ Clear

\* ------------------------------------------------------ TelemetryReporter

Incidents == 1..MaxIncidents
LoopIds == 1..MaxLoops
\* What fetch does on an attempt: resolves to an ok response, resolves to a
\* non-ok response, or throws.
Outcomes == {"ok", "nonok", "throws"}
MaxRetriesChoices == {1, DEFAULT_MAX_RETRIES}

NotReported == [pc |-> "new", attempt |-> 0, res |-> "pending"]
NoLoop == [pc |-> "off", inc |-> 0, attempt |-> 0]
Active(l) == loops[l].pc # "off"

\* send() that also retries after the attempt numbered maxRetries.
MayRetry_LastToo(attempt) == reporterConfig.retry /\ attempt <= reporterConfig.maxRetries

\* send() that never retries.
MayRetry_Never(attempt) == FALSE

\* send: this.config.retry && attempt < this.config.maxRetries
MayRetry(attempt) == reporterConfig.retry /\ attempt < reporterConfig.maxRetries

\* A backoff that grows by 100 ms per attempt.
BackoffDelay_Linear(attempt) == attempt * 100

\* send: const delay = Math.pow(2, attempt) * 100
BackoffDelay(attempt) == (2 ^ attempt) * 100

\* The delay send() waits after the fetch of this attempt ended with outcome o
\* (0: none, send() returns).
Waits(o, attempt) == IF o = "nonok" /\ MayRetry(attempt) THEN BackoffDelay(attempt) ELSE 0

\* send() whose catch block throws the error on.
SendCatch_Rethrows(outcome) == IF outcome = "throws" THEN "rejected" ELSE "resolved"

\* send(): how its promise settles after the try / catch, given what fetch did
\* (the catch block throws nothing).
SendCatch(outcome) == "resolved"

\* processQueue() that returns at once, whatever the queue holds.
ProcessQueueReturns_Always(processing, q) == TRUE

\* processQueue() without the isProcessing test.
ProcessQueueReturns_NoGuard(processing, q) == q = <<>>

\* processQueue: if (this.isProcessing || this.queue.length === 0) return
ProcessQueueReturns(processing, q) == processing \/ q = <<>>

\* The first part of send(incident, attempt), up to "await fetch(...)".
Fetching(i, attempt) == [pc |-> "fetch", inc |-> i, attempt |-> attempt]

\* The catch block of send(i, attempt), then processQueue() up to its first
\* await, with the drain loops as in ls: the incident is pushed; a new drain
\* loop shifts the head of the queue and begins send(incident).
Caught(i, attempt, ls) ==
    LET q == IF MayRetry(attempt) THEN Append(queue, i) ELSE queue IN
    IF MayRetry(attempt) /\ ~ProcessQueueReturns(isProcessing, q)
    THEN \E l \in LoopIds :
            /\ ls[l].pc = "off"
            /\ \A k \in 1..(l - 1) : ls[k].pc # "off"
            /\ attempts[Head(q)] < MaxAttempts
            /\ isProcessing' = TRUE
            /\ queue' = Tail(q)
            /\ loops' = [ls EXCEPT ![l] = Fetching(Head(q), 1)]
            /\ attempts' = [attempts EXCEPT ![Head(q)] = @ + 1]
    ELSE /\ queue' = q
         /\ loops' = ls
         /\ UNCHANGED <<isProcessing, attempts>>

InitTelemetry ==
    /\ reporterConfig \in [retry : BOOLEAN, maxRetries : MaxRetriesChoices]
    /\ queue = <<>>
    /\ isProcessing = FALSE
    /\ reports = [i \in Incidents |-> NotReported]
    /\ loops = [l \in LoopIds |-> NoLoop]
    /\ attempts = [i \in Incidents |-> 0]
    /\ delivered = {}
    /\ lastFetch = <<>>

\* report(type, payload) (or info / warning / critical) for incident i, up to
\* the "await fetch" of send(incident).
ReportIncident(i) ==
    /\ UNCHANGED <<guardianVars, cryptoVars, callVars, listenerVars>>
    /\ reports[i].pc = "new"
    /\ reports' = [reports EXCEPT ![i] = [pc |-> "fetch", attempt |-> 1, res |-> "pending"]]
    /\ attempts' = [attempts EXCEPT ![i] = @ + 1]
    /\ lastFetch' = <<>>
    /\ UNCHANGED <<reporterConfig, queue, isProcessing, loops, delivered>>

\* The fetch of the send() of report call i ends with outcome o.
ReportFetchEnds(i, o) ==
    LET a == reports[i].attempt IN
    /\ UNCHANGED <<guardianVars, cryptoVars, callVars, listenerVars>>
    /\ reports[i].pc = "fetch"
    /\ lastFetch' = <<[inc |-> i, by |-> "report", attempt |-> a, outcome |-> o,
                      processing |-> isProcessing, wait |-> Waits(o, a)]>>
    /\ delivered' = IF o = "ok" THEN delivered \cup {i} ELSE delivered
    /\ CASE o = "ok" ->
              /\ reports' = [reports EXCEPT ![i] = [@ EXCEPT !.pc = "done", !.res = SendCatch(o)]]
              /\ UNCHANGED <<queue, isProcessing, loops, attempts>>
         [] o = "nonok" ->
              /\ reports' = [reports EXCEPT ![i] =
                    IF MayRetry(a) THEN [@ EXCEPT !.pc = "backoff"]
                    ELSE [@ EXCEPT !.pc = "done", !.res = SendCatch(o)]]
              /\ UNCHANGED <<queue, isProcessing, loops, attempts>>
         [] o = "throws" ->
              /\ reports' = [reports EXCEPT ![i] = [@ EXCEPT !.pc = "done", !.res = SendCatch(o)]]
              /\ Caught(i, a, loops)
    /\ UNCHANGED reporterConfig

\* The backoff delay of report call i ends: return this.send(incident, attempt + 1)
ReportRetries(i) ==
    /\ UNCHANGED <<guardianVars, cryptoVars, callVars, listenerVars>>
    /\ reports[i].pc = "backoff"
    /\ attempts[i] < MaxAttempts
    /\ reports' = [reports EXCEPT ![i] = [@ EXCEPT !.pc = "fetch", !.attempt = @ + 1]]
    /\ attempts' = [attempts EXCEPT ![i] = @ + 1]
    /\ lastFetch' = <<>>
    /\ UNCHANGED <<reporterConfig, queue, isProcessing, loops, delivered>>

\* The fetch of the send() awaited by drain loop l ends with outcome o; the
\* loop goes on to its one-second delay, or send() to its backoff delay.
LoopFetchEnds(l, o) ==
    LET i == loops[l].inc
        a == loops[l].attempt IN
    /\ UNCHANGED <<guardianVars, cryptoVars, callVars, listenerVars>>
    /\ loops[l].pc = "fetch"
    /\ lastFetch' = <<[inc |-> i, by |-> "loop", attempt |-> a, outcome |-> o,
                      processing |-> isProcessing, wait |-> Waits(o, a)]>>
    /\ delivered' = IF o = "ok" THEN delivered \cup {i} ELSE delivered
    /\ CASE o = "ok" ->
              /\ loops' = [loops EXCEPT ![l].pc = "spacing"]
              /\ UNCHANGED <<queue, isProcessing, attempts>>
         [] o = "nonok" ->
              /\ loops' = [loops EXCEPT ![l].pc = IF MayRetry(a) THEN "backoff" ELSE "spacing"]
              /\ UNCHANGED <<queue, isProcessing, attempts>>
         [] o = "throws" ->
              Caught(i, a, [loops EXCEPT ![l].pc = "spacing"])
    /\ UNCHANGED <<reporterConfig, reports>>

\* The backoff delay of the send() awaited by drain loop l ends.
LoopRetries(l) ==
    /\ UNCHANGED <<guardianVars, cryptoVars, callVars, listenerVars>>
    /\ loops[l].pc = "backoff"
    /\ attempts[loops[l].inc] < MaxAttempts
    /\ loops' = [loops EXCEPT ![l].pc = "fetch", ![l].attempt = @ + 1]
    /\ attempts' = [attempts EXCEPT ![loops[l].inc] = @ + 1]
    /\ lastFetch' = <<>>
    /\ UNCHANGED <<reporterConfig, queue, isProcessing, reports, delivered>>

\* The one-second delay of drain loop l ends: the loop takes the next incident
\* of the queue, or ends when the queue is empty.
LoopGoesOn(l) ==
    /\ UNCHANGED <<guardianVars, cryptoVars, callVars, listenerVars>>
    /\ loops[l].pc = "spacing"
    /\ lastFetch' = <<>>
    /\ IF Len(queue) > 0
       THEN /\ attempts[Head(queue)] < MaxAttempts
            /\ queue' = Tail(queue)
            /\ loops' = [loops EXCEPT ![l] = Fetching(Head(queue), 1)]
            /\ attempts' = [attempts EXCEPT ![Head(queue)] = @ + 1]
            /\ UNCHANGED isProcessing
       ELSE /\ isProcessing' = FALSE
            /\ loops' = [loops EXCEPT ![l] = NoLoop]
            /\ UNCHANGED <<queue, attempts>>
    /\ UNCHANGED <<reporterConfig, reports, delivered>>

NextTelemetry ==
    \/ \E i \in Incidents : ReportIncident(i)
    \/ \E i \in Incidents, o \in Outcomes : ReportFetchEnds(i, o)
    \/ \E i \in Incidents : ReportRetries(i)
    \/ \E l \in LoopIds, o \in Outcomes : LoopFetchEnds(l, o)
    \/ \E l \in LoopIds : LoopRetries(l)
    \/ \E l \in LoopIds : LoopGoesOn(l)

\* info(), warning(), critical(): the arguments explored. A meta map has any
\* of the fields of MetaFields, "event" among them.
Levels == {"info", "warning", "critical"}
EventNames == {"user_login", "data_breach"}
MetaFields == {"event", "userId", "ip"}
MetaValues == {"123", "1.2.3.4"}
MetaMaps == UNION {[D -> MetaValues] : D \in SUBSET MetaFields}

\* { ...a, ...b }: the own fields of a, then those of b, a later one replacing
\* an earlier one of the same name.
Spread(a, b) ==
    [f \in DOMAIN a \cup DOMAIN b |-> IF f \in DOMAIN b THEN b[f] ELSE a[f]]

\* info / warning / critical: the type they pass to report().
LevelType(level) ==
    CASE level = "info" -> "INFO"
      [] level = "warning" -> "WARNING"
      [] level = "critical" -> "CRITICAL"

\* info / warning / critical: the payload { event, ...meta }.
LevelPayload(event, meta) == Spread([f \in {"event"} |-> event], meta)

\* report(type, payload): the incident handed to send() (its timestamp and
\* url are left out).
Incident(type, payload) == [type |-> type, payload |-> payload]

InitLevels ==
    /\ input \in [level : Levels, event : EventNames, meta : MetaMaps]
    /\ output = <<>>

\* reporter.info(event, meta), .warning(event, meta) or .critical(event, meta),
\* up to the incident that report() builds.
LogEvent ==
    /\ UNCHANGED <<guardianVars, cryptoVars, telemetryVars, listenerVars>>
    /\ output = <<>>
    /\ output' = <<Incident(LevelType(input.level), LevelPayload(input.event, input.meta))>>
    /\ UNCHANGED input

NextLevels == LogEvent

\* ------------------------------------------- SessionGuardian's listeners

\* type SessionGuardianEvent
GuardianEvents == {"idle", "active", "visibility-change", "warning"}
Handlers == 1 .. MaxHandlers

Elements(q) == {q[i] : i \in DOMAIN q}

\* An array push in place of Set.add: a handler can be listed twice.
SetAdd_Push(q, h) == Append(q, h)

\* Set.prototype.add: a new element goes last, a present one stays where it is.
SetAdd(q, h) == IF h \in Elements(q) THEN q ELSE Append(q, h)

\* Set.prototype.delete
SetDelete(q, h) == SelectSeq(q, LAMBDA x : x # h)

\* The constructor: one empty Set per event type.
InitListeners ==
    /\ listeners = [e \in GuardianEvents |-> <<>>]
    /\ invoked = <<>>
    /\ calls = <<>>

\* on(event, handler)
On(e, h) ==
    /\ UNCHANGED <<guardianVars, cryptoVars, telemetryVars, callVars>>
    /\ Len(calls) < MaxCalls
    /\ listeners' = [listeners EXCEPT ![e] = SetAdd(@, h)]
    /\ invoked' = <<>>
    /\ calls' = Append(calls, [op |-> "on", ev |-> e, handler |-> h])

\* off(event, handler)
Off(e, h) ==
    /\ UNCHANGED <<guardianVars, cryptoVars, telemetryVars, callVars>>
    /\ Len(calls) < MaxCalls
    /\ listeners' = [listeners EXCEPT ![e] = SetDelete(@, h)]
    /\ invoked' = <<>>
    /\ calls' = Append(calls, [op |-> "off", ev |-> e, handler |-> h])

\* emit(event, data): this.listeners.get(event)?.forEach(handler => handler(data)),
\* with handlers that return normally and call neither on() nor off().
EmitEvent(e) ==
    /\ UNCHANGED <<guardianVars, cryptoVars, telemetryVars, callVars>>
    /\ invoked' = <<[ev |-> e, handlers |-> listeners[e]]>>
    /\ UNCHANGED <<listeners, calls>>

NextListeners ==
    \/ \E e \in GuardianEvents, h \in Handlers : On(e, h)
    \/ \E e \in GuardianEvents, h \in Handlers : Off(e, h)
    \/ \E e \in GuardianEvents : EmitEvent(e)

\* ---------------------------------------------------- DeviceFingerprinter

\* null
Null == "null"

\* The fingerprint of the tests, and the fingerprints that differ from it in
\* any of their fields; canvasHash and webglRenderer may be null.
BaseFingerprint ==
    [screenResolution |-> "1920x1080", colorDepth |-> 24, timezoneOffset |-> -60,
     timezone |-> "Europe/Rome", language |-> "en-US", languages |-> <<"en-US">>,
     platform |-> "MacIntel", hardwareConcurrency |-> 8, deviceMemory |-> <<16>>,
     touchSupport |-> FALSE, canvasHash |-> "abc123", webglRenderer |-> "ANGLE",
     webglVendor |-> "Google Inc.", collectedAt |-> "t1"]
CurrentFingerprints ==
    [screenResolution : {"1920x1080", "1366x768"}, colorDepth : {24, 30},
     timezoneOffset : {-60, 300},
     timezone : {"Europe/Rome", "America/New_York"}, language : {"en-US", "de-DE"},
     languages : {<<"en-US">>, <<"de-DE">>},
     platform : {"MacIntel", "Win32"}, hardwareConcurrency : {8, 0},
     deviceMemory : {<<16>>, <<>>},
     touchSupport : BOOLEAN, canvasHash : {"abc123", Null}, webglRenderer : {"ANGLE", Null},
     webglVendor : {"Google Inc.", Null}, collectedAt : {"t1", "t2"}]
PreviousFingerprints ==
    {[BaseFingerprint EXCEPT !.canvasHash = c, !.webglRenderer = w] :
        c \in {"abc123", Null}, w \in {"ANGLE", Null}}

\* compare() that looks at webglVendor in place of webglRenderer.
FieldsToCompare_Vendor ==
    <<"screenResolution", "colorDepth", "timezone", "language", "platform",
      "hardwareConcurrency", "canvasHash", "webglVendor">>

\* compare: fieldsToCompare
FieldsToCompare ==
    <<"screenResolution", "colorDepth", "timezone", "language", "platform",
      "hardwareConcurrency", "canvasHash", "webglRenderer">>

\* compare: the loop over fieldsToCompare from index n on, with the matches
\* counted and the mismatches pushed so far.
RECURSIVE CompareLoop(_, _, _, _, _)
CompareLoop(current, previous, n, matches, mismatches) ==
    IF n > Len(FieldsToCompare) THEN [matches |-> matches, mismatches |-> mismatches]
    ELSE IF current[FieldsToCompare[n]] = previous[FieldsToCompare[n]]
         THEN CompareLoop(current, previous, n + 1, matches + 1, mismatches)
         ELSE CompareLoop(current, previous, n + 1, matches,
                          Append(mismatches, FieldsToCompare[n]))

\* compare(current, previous); similarity is the quotient num / den.
CompareFingerprints(current, previous) ==
    LET r == CompareLoop(current, previous, 1, 0, <<>>) IN
    [similarity |-> [num |-> r.matches, den |-> Len(FieldsToCompare)],
     mismatches |-> r.mismatches]

InitCompare ==
    /\ input \in [current : CurrentFingerprints, previous : PreviousFingerprints]
    /\ output = <<>>

\* fingerprinter.compare(current, previous)
Compare ==
    /\ UNCHANGED <<guardianVars, cryptoVars, telemetryVars, listenerVars>>
    /\ output = <<>>
    /\ output' = <<CompareFingerprints(input.current, input.previous)>>
    /\ UNCHANGED input

NextCompare == Compare

\* ------------------------------------------------------- specifications

\* The other component, constructed and left alone.
GuardianAtRest ==
    /\ config = [idleTimeoutMinutes |-> DEFAULT_TIMEOUT_MINUTES,
                 activityEvents |-> DEFAULT_ACTIVITY_EVENTS,
                 activityThrottleMs |-> DEFAULT_THROTTLE_MS]
    /\ now = 0 /\ lastActivity = 0 /\ isIdle = FALSE /\ isRunning = FALSE
    /\ timer = NoTimer /\ timers = {} /\ domListeners = {} /\ hidden = FALSE
    /\ emitted = <<>> /\ warningSeconds = <<>> /\ transitions = <<>> /\ quietRun = <<>> /\ arm = <<>>
    /\ stopReturned = <<>> /\ resetWhileStopped = FALSE /\ armedAt = -1 /\ lastCall = <<>> /\ signal = <<>>

CryptoAtRest == InitCrypto /\ enumerable = FALSE
TelemetryAtRest ==
    /\ reporterConfig = [retry |-> TRUE, maxRetries |-> DEFAULT_MAX_RETRIES]
    /\ queue = <<>> /\ isProcessing = FALSE
    /\ reports = [i \in Incidents |-> NotReported]
    /\ loops = [l \in LoopIds |-> NoLoop]
    /\ attempts = [i \in Incidents |-> 0]
    /\ delivered = {}
    /\ lastFetch = <<>>

\* No call of a function of the last group.
NoCall == input = <<>> /\ output = <<>>
NoListeners == InitListeners

InitOfGuardian == NoListeners /\ InitGuardian /\ CryptoAtRest /\ TelemetryAtRest /\ NoCall
InitOfThrottle == NoListeners /\ InitThrottle /\ CryptoAtRest /\ TelemetryAtRest /\ NoCall
InitOfCrypto == NoListeners /\ GuardianAtRest /\ CryptoAtRest /\ TelemetryAtRest /\ NoCall
InitOfStorage == NoListeners /\ GuardianAtRest /\ InitCrypto /\ TelemetryAtRest /\ NoCall
InitOfTelemetry == NoListeners /\ GuardianAtRest /\ CryptoAtRest /\ InitTelemetry /\ NoCall
InitOfCompare == NoListeners /\ GuardianAtRest /\ CryptoAtRest /\ TelemetryAtRest /\ InitCompare
InitOfLevels == NoListeners /\ GuardianAtRest /\ CryptoAtRest /\ TelemetryAtRest /\ InitLevels
InitOfListeners == GuardianAtRest /\ CryptoAtRest /\ TelemetryAtRest /\ NoCall /\ InitListeners

SpecGuardian == InitOfGuardian /\ [][NextGuardian]_vars

SpecThrottle == InitOfThrottle /\ [][NextThrottle]_vars

SpecCrypto == InitOfCrypto /\ [][NextCrypto]_vars

SpecTamper == InitOfCrypto /\ [][NextTamper]_vars

SpecRevoke == InitOfCrypto /\ [][NextRevoke]_vars

SpecRead == InitOfCrypto /\ [][NextRead]_vars

SpecWrite == InitOfCrypto /\ [][NextWrite]_vars

SpecStorage == InitOfStorage /\ [][NextStorage]_vars

SpecTelemetry == InitOfTelemetry /\ [][NextTelemetry]_vars

SpecCompare == InitOfCompare /\ [][NextCompare]_vars

SpecLevels == InitOfLevels /\ [][NextLevels]_vars

SpecListeners == InitOfListeners /\ [][NextListeners]_vars

\* Every fetch ends and every backoff delay runs out.
TelemetryFair ==
    \A i \in Incidents :
        /\ WF_vars(\E o \in Outcomes : ReportFetchEnds(i, o))
        /\ WF_vars(ReportRetries(i))
SpecTelemetryLive == InitOfTelemetry /\ [][NextTelemetry]_vars /\ TelemetryFair

\* Time passes, and a timer whose deadline has come runs its callback.
GuardianFair ==
    /\ WF_vars(AdvanceTime)
    /\ WF_vars(IdleTimerFires)
    /\ WF_vars(WarningTimerFires)
InitOfGuardianLive == NoListeners /\ InitTwoMinutes /\ CryptoAtRest /\ TelemetryAtRest /\ NoCall
SpecGuardianLive == InitOfGuardianLive /\ [][NextGuardian]_vars /\ GuardianFair

\* ------------------------------------------- properties of SessionGuardian

IdleEmitted(evs) == \E i \in 1..Len(evs) : evs[i].ev = "idle"

\* What claim C1 says of a quiet run q = [t0, idleAt, warnAt] at the current time.
QuietRunAsClaimed(q) ==
    LET T == TimeoutMs IN
    /\ now < q.t0 + T => q.idleAt = <<>> /\ ~isIdle
    /\ q.idleAt \in {<<>>, <<q.t0 + T>>}
    /\ now > q.t0 + T => q.idleAt = <<q.t0 + T>>
    /\ q.idleAt # <<>> => isIdle
    /\ IF T > WARNING_LEAD_MS
       THEN /\ q.warnAt \in {<<>>, <<q.t0 + T - WARNING_LEAD_MS>>}
            /\ now > q.t0 + T - WARNING_LEAD_MS => q.warnAt # <<>>
            /\ q.idleAt # <<>> => q.warnAt # <<>>
       ELSE q.warnAt = <<>>

\* C1 as stated, for every start() that takes effect: after start() at t0 with no
\* activity signal, visibility change, reset() or stop() since, no idle event and
\* isIdle false before t0+T, exactly one idle event at t0+T and isIdle true
\* afterwards, exactly one warning at t0+T-60000 when T > 60000, none otherwise.
C1_QuietRun_AnyStart == quietRun # <<>> => QuietRunAsClaimed(quietRun[1])

\* C1 (amended): the same, for a start() on a monitor that is not idle and has
\* no warning delay of an earlier arm still pending (as a new monitor).
C1_QuietRun == quietRun # <<>> /\ quietRun[1].clean => QuietRunAsClaimed(quietRun[1])

C1_Witness ==
    /\ quietRun # <<>>
    /\ quietRun[1].clean
    /\ quietRun[1].t0 > 0
    /\ quietRun[1].warnAt # <<>>
    /\ quietRun[1].idleAt # <<>>

\* C2: after reset() or an accepted activity signal at time t on a running
\* monitor, no idle event is emitted in [t, t+T); and if nothing else happens,
\* idle is emitted at t+T, once.
C2_ActivityReset ==
    arm # <<>> =>
        LET a == arm[1]  T == TimeoutMs IN
        /\ \A i \in 1..Len(a.idleAt) : a.idleAt[i] >= a.at + T
        /\ a.quiet => /\ a.idleAt \in {<<>>, <<a.at + T>>}
                      /\ now > a.at + T => a.idleAt = <<a.at + T>> /\ isIdle

C2_Witness ==
    /\ arm # <<>>
    /\ arm[1].quiet
    /\ arm[1].at > 0
    /\ arm[1].idleAt = <<arm[1].at + TimeoutMs>>

\* C3 as stated: after stop() has returned and until start() is called again, no
\* idle event is emitted and isIdle never becomes true, whatever else is called.
C3_StopSuppresses_AnyCalls ==
    [][stopReturned # <<>> /\ stopReturned' # <<>>
         => ~IdleEmitted(emitted') /\ (isIdle' => isIdle)]_vars

\* C3 (amended): the same, provided reset() has not been called on the stopped
\* monitor since it last ran.
C3_StopSuppresses ==
    [][stopReturned # <<>> /\ stopReturned' # <<>> /\ ~resetWhileStopped'
         => ~IdleEmitted(emitted') /\ (isIdle' => isIdle)]_vars

\* A cancelled timeout's deadline has passed on a stopped monitor that is not idle.
C3_Witness ==
    /\ stopReturned # <<>>
    /\ ~resetWhileStopped
    /\ ~isIdle
    /\ \E d \in stopReturned[1].cancelled : now > d

\* ------------------------------ properties of CryptoService, SecureStorage

\* The calls in flight and the calls the last step finished.
Calls == {tasks[t] : t \in {u \in TaskIds : ~Free(u)}}

\* C4: while clearKey() has never been called, the calls made on the service
\* cause exactly one key generation, and every call that has its key has the
\* key of that one generation, as has the service.
C4_SingleFlight ==
    ~everCleared =>
        /\ genCount <= 1
        /\ (Calls # {} \/ done # {}) => genCount = 1
        /\ key \in {NoKey, 1}
        /\ \A r \in Calls : r.key \in {NoKey, 1} /\ r.wait \in {NoPromise, 1}
        /\ \A r \in done : r.key = 1 /\ (r.op = "getKey" => r.res = KeyRes(1))

\* Every slot holds a call begun while no key existed; all got the same key.
C4_Witness ==
    /\ ~everCleared
    /\ genCount = 1
    /\ \A t \in TaskIds :
          tasks[t].pc = "crypto" /\ tasks[t].keyAtCall = NoKey /\ tasks[t].key = 1

\* C5: a generation begun before the last clearKey() never provides the
\* service's current key, nor the key of a call begun after that clearKey().
C5_ClearKeyDiscards ==
    /\ key \notin staleGens
    /\ \A r \in Calls : ~r.old => r.key \notin staleGens
    /\ \A r \in done : ~r.old => r.key \notin staleGens

\* C6: decrypt(p) of a payload p that encrypt(s) returned, with no clearKey()
\* since that encrypt(s) began, resolves to s.
C6_RoundTrip ==
    \A r \in done : r.op = "decrypt" /\ r.expect # <<>> => r.res = StringRes(r.expect[1])

\* C7: a decrypt(p), or a get(k) reading p, begun after a clearKey() that
\* followed the making of p resolves to null, and the key of a payload made
\* before a clearKey() is not the current key.
C7_Revoked ==
    /\ \A r \in done : r.revoked => r.res = NullRes
    /\ \A p \in HeldPayloads : Genuine(p) /\ p.data.n \in revoked => key # p.data.k

\* A get(k) of a value stored before a clearKey() finished while the service
\* has a key again, and a payload returned by encrypt() before it is held.
C7_Witness ==
    /\ \E r \in done : r.op = "get" /\ r.revoked /\ r.key # NoKey
    /\ key # NoKey
    /\ \E p \in held : p.data.n \in revoked

\* C8: a decrypt() call never ends rejected; it resolves to null for a payload
\* that no encrypt() of this service returned (malformed base64, another IV, an
\* IV of another length, altered ciphertext, another service's payload); and
\* the step in which a decrypt() begun with a key resolves to null leaves
\* this.key and this.keyPromise as they were.
C8_DecryptNeverThrows ==
    [][\A r \in done' :
          r.op = "decrypt" =>
              /\ r.res.kind \in {"string", "null"}
              /\ ~Genuine(r.pl) => r.res = NullRes
              /\ (r.res = NullRes /\ r.keyAtCall # NoKey)
                    => key' = key /\ keyPromise' = keyPromise]_vars

\* A decrypt() of altered ciphertext, begun with a key, has resolved to null
\* and that key is still the current key.
C8_Witness ==
    \E r \in done :
        /\ r.op = "decrypt" /\ r.res = NullRes
        /\ r.pl.iv.wf /\ r.pl.data.wf /\ ~r.pl.data.ok
        /\ r.keyAtCall # NoKey /\ key = r.keyAtCall

\* C9: a get(k) begun after set(k, v) has resolved, with no clearKey(),
\* remove(k), clear() or other set(k, ..) since that set began, resolves to v.
C9_StoreRoundTrip ==
    \A r \in done : r.op = "get" /\ r.expect # <<>> => r.res = ValueRes(r.expect[1])

\* C10: a setItem of the store writes, under prefix + key, the serialized
\* payload that encrypts the JSON text of the value; an item under a prefixed
\* key is such a payload or absent; and the backend keys that do not start with
\* the prefix hold what they held at construction.
C10_AtRest ==
    /\ lastWrite # <<>> =>
          LET w == lastWrite[1] IN
          /\ w.bkey = Prefix \o w.k
          /\ backend[w.bkey] = w.item
          /\ w.item.kind = "payload"
          /\ Genuine(w.item.pl)
          /\ AesGcmDecrypt(w.item.pl.data.k, w.item.pl) = <<w.json>>
    /\ \A bk \in BackendKeys :
          IF StartsWith(bk, Prefix)
          THEN backend[bk].kind \in {"absent", "payload"}
          ELSE backend[bk] = (IF bk = <<"o">> THEN Text("other") ELSE Absent)

\* set("k", v) has just written its item, and the backend holds nothing under "k".
C10_Witness ==
    /\ lastWrite # <<>>
    /\ lastWrite[1].k = <<"k">>
    /\ backend[Prefix \o <<"k">>].kind = "payload"
    /\ backend[<<"k">>] = Absent

\* C11: a get() call ends resolved, never rejected; it resolves to null when
\* it never reached decryption (item absent, empty, unparsable or lacking iv or
\* data) and when decryption yields null; and the step in which a get() ends
\* leaves the backend as it was.
C11_GetSilent ==
    [][\A r \in done' :
          r.op = "get" =>
              /\ r.res.kind \in {"value", "null"}
              /\ (r.key = NoKey \/ DecryptResult(r.key, r.pl) = NullRes) => r.res = NullRes
              /\ backend' = backend]_vars

\* A get() of an item that is no JSON has resolved to null.
C11_Witness ==
    \E r \in done :
        /\ r.op = "get" /\ r.res = NullRes /\ r.key = NoKey
        /\ backend[BackendKey(<<"k">>)] = Text("not json")

\* C12: a set() call inside which serialization, encryption or the backend
\* write threw ends rejected with that error; and when the error came before
\* the backend write, the step leaves the backend as it was.
C12_SetPropagates ==
    [][\A r \in done' :
          (r.op = "set" /\ r.raised # <<>>) =>
              /\ r.res = RejectedWith(r.raised[1])
              /\ r.raised[1] \in {"TypeError", "OperationError"} => backend' = backend]_vars

\* A set() has been rejected with the error of a failed encryption while an
\* earlier value is stored under its key.
C12_Witness ==
    /\ \E r \in done : r.op = "set" /\ r.res = RejectedWith("OperationError")
    /\ backend[BackendKey(<<"k">>)].kind = "payload"

\* C13: after clear() on a backend with length and key(index), no key that
\* starts with the prefix remains and every other key holds what it held; on a
\* backend without them clear() changes nothing; remove(k) makes prefix + k
\* absent and leaves every other key as it was (and the whole backend, when
\* prefix + k was absent).
C13_ClearRemoveFrame ==
    removed # <<>> =>
        LET c == removed[1] IN
        IF c.by = "clear"
        THEN IF enumerable
             THEN \A bk \in BackendKeys :
                     IF StartsWith(bk, Prefix) THEN backend[bk] = Absent
                     ELSE backend[bk] = c.before[bk]
             ELSE backend = c.before
        ELSE /\ backend[Prefix \o c.k] = Absent
             /\ \A bk \in BackendKeys \ {Prefix \o c.k} : backend[bk] = c.before[bk]
             /\ c.before[Prefix \o c.k] = Absent => backend = c.before

\* clear() has just removed a stored item on a backend that enumerates its
\* keys, and the key of another user of the backend still holds its item.
C13_Witness ==
    /\ removed # <<>>
    /\ removed[1].by = "clear"
    /\ enumerable
    /\ removed[1].before[Prefix \o <<"k">>].kind = "payload"
    /\ backend[<<"o">>] = Text("other")

\* An activity signal reaches the handler.
SignalStep == \E e \in DEFAULT_ACTIVITY_EVENTS : ActivitySignal(e)
\* What a throttled signal leaves alone, and the distance between two
\* consecutive updates of lastActivity by activity signals.
ThrottleFrame ==
    /\ now - lastActivity < config.activityThrottleMs =>
          /\ lastActivity' = lastActivity
          /\ isIdle' = isIdle
          /\ timer' = timer
          /\ timers' = timers
          /\ emitted' = <<>>
    /\ (signal'[1].rearmed /\ signal # <<>> /\ signal[1].updated >= 0) =>
          now - signal[1].updated >= config.activityThrottleMs
\* The signal before this one came ShortMs earlier and re-armed the timeout.
SecondOfTwo == signal # <<>> /\ signal[1].rearmed /\ now - signal[1].at = ShortMs
NotRearmed == timer' = timer /\ timers' = timers

\* C14 as stated, for every configured throttle: a throttled activity signal
\* changes nothing and emits nothing, two updates of lastActivity by signals
\* are at least the throttle apart, and of two signals 10 ms apart at most one
\* re-arms the timeout.
C14_Throttle_AnyThrottle ==
    [][SignalStep => (ThrottleFrame /\ (SecondOfTwo => NotRearmed))]_vars

\* C14: a throttled activity signal changes nothing and emits nothing, two
\* updates of lastActivity by signals are at least the throttle apart, and,
\* with a throttle above 10 ms, of two signals 10 ms apart at most one re-arms
\* the timeout.
C14_Throttle ==
    [][SignalStep =>
          /\ ThrottleFrame
          /\ (config.activityThrottleMs > ShortMs /\ SecondOfTwo) => NotRearmed]_vars

\* A signal has been ignored 10 ms after one that updated lastActivity and
\* re-armed the timeout of a running monitor.
C14_Witness ==
    /\ signal # <<>>
    /\ ~signal[1].rearmed
    /\ signal[1].updated = signal[1].at - ShortMs
    /\ signal[1].updated > 0
    /\ lastActivity = signal[1].updated
    /\ isRunning
    /\ config.activityThrottleMs = DEFAULT_THROTTLE_MS

\* The monitor's fields, the browser's pending timeouts and the registered
\* listeners (an EventTarget keeps one entry per type and callback).
Monitor == <<config, lastActivity, isIdle, isRunning, timer, timers, domListeners, hidden>>
Registered ==
    domListeners = IF isRunning THEN config.activityEvents \cup {"visibilitychange"} ELSE {}

\* C15: start() on a running monitor and stop() on a stopped monitor change
\* nothing (listeners, pending timeout, fields) and emit nothing; after every
\* start() or stop() each signal type has its one listener when the monitor is
\* running and none when it is stopped.
C15_Idempotent ==
    [][(Start \/ Stop) =>
          /\ (Start /\ isRunning) => (Monitor' = Monitor /\ emitted' = <<>>)
          /\ (Stop /\ ~isRunning) => (Monitor' = Monitor /\ emitted' = <<>>)
          /\ Registered']_vars

\* start() has been called on a running monitor whose timeout is pending.
C15_Witness ==
    /\ lastCall # <<>>
    /\ lastCall[1].op = "start"
    /\ lastCall[1].running
    /\ isRunning
    /\ \E x \in timers : x.id = timer /\ x.kind = "idle" /\ x.at < now + TimeoutMs
    /\ Registered

\* handleActivity() has passed the throttle in this step.
Accepted == signal' # <<>> /\ signal' # signal /\ signal'[1].rearmed

\* C16: start() and stop() leave isIdle and lastActivity as they were and emit
\* nothing; an idle monitor, stopped or started again, stays idle until a
\* reset() or an accepted activity signal.
C16_IdleIndependent ==
    [][/\ (Start \/ Stop) =>
             (isIdle' = isIdle /\ lastActivity' = lastActivity /\ emitted' = <<>>)
       /\ (isIdle /\ ~isIdle') => (Reset \/ Accepted)]_vars

\* start() has been called on a stopped monitor that was idle, and it is
\* idle still.
C16_Witness ==
    /\ lastCall # <<>>
    /\ lastCall[1].op = "start"
    /\ ~lastCall[1].running
    /\ lastCall[1].idle
    /\ isRunning
    /\ isIdle

\* this.timer is a pending timeout that calls triggerIdle() at time t.
TimeoutPendingAt(t) == \E x \in timers : x.id = timer /\ x.kind = "idle" /\ x.at = t

\* C17: reset(), running or stopped, sets lastActivity to now, clears isIdle,
\* emits active when the monitor was idle and nothing otherwise, and leaves
\* this.timer a pending timeout due T ms from now.
C17_Reset ==
    [][Reset =>
          /\ lastActivity' = now
          /\ ~isIdle'
          /\ emitted' = IF isIdle THEN <<[ev |-> "active", data |-> NoData]>> ELSE <<>>
          /\ isRunning' = isRunning
          /\ TimeoutPendingAt(now + config.idleTimeoutMinutes * 60 * 1000)']_vars

\* reset() has been called on a stopped, idle monitor: active was emitted and
\* a timeout is pending on the stopped monitor.
C17_Witness ==
    /\ lastCall # <<>>
    /\ lastCall[1].op = "reset"
    /\ ~lastCall[1].running
    /\ lastCall[1].idle
    /\ ~isRunning
    /\ Len(emitted) = 1
    /\ emitted[1].ev = "active"
    /\ TimeoutPendingAt(now + TimeoutMs)

\* C24: the payload that an encrypt() call returns has an IV of 12 bytes that
\* no payload returned before has, and a ciphertext that none has, whatever
\* their plaintexts and keys.
C24_FreshIv ==
    [][\A r \in done' :
          (r.op = "encrypt" /\ r.res.kind = "payload") =>
              /\ r.res.pl.iv.len = 12
              /\ \A p \in held : p.iv # r.res.pl.iv /\ p.data # r.res.pl.data]_vars

\* Two encrypt() calls with the same plaintext under the same key have
\* returned payloads with different IVs.
C24_Witness ==
    \E p, q \in held :
        /\ p.data.pt = q.data.pt
        /\ p.data.k = q.data.k
        /\ p.iv # q.iv
        /\ p.data # q.data

\* The warning callback has emitted its event in this step.
WarningEmitted == WarningTimerFires /\ emitted' # <<>>
SixtySeconds == <<[ev |-> "warning", data |-> [secondsRemaining |-> 60]]>>
\* The delay of the warning emitted now was scheduled by the last resetTimer().
OfLastArming == \A x \in timers \ timers' : x.set = armedAt

Timeouts(ts) == {x \in ts : x.kind = "idle"}
Warnings(ts) == {x \in ts : x.kind = "warning"}
\* resetTimer() has run in this step.
Rearmed == Timeouts(timers') \ Timeouts(timers) # {}

\* C26: at most one timeout is pending, and it is this.timer; a re-arm
\* cancels the pending timeout and leaves every pending warning delay; a
\* warning delay that fires emits its warning exactly when the monitor is
\* running and not idle.
C26_Rearm ==
    [][/\ Cardinality(Timeouts(timers')) <= 1
       /\ \A x \in Timeouts(timers') : x.id = timer'
       /\ Rearmed => /\ Timeouts(timers) \cap Timeouts(timers') = {}
                     /\ Warnings(timers) \subseteq Warnings(timers')
       /\ WarningTimerFires => (emitted' = SixtySeconds <=> (isRunning /\ ~isIdle))]_vars

\* A warning has been emitted although an accepted activity signal re-armed
\* the timeout less than T - 60 s ago.
C26_Witness ==
    /\ emitted = SixtySeconds
    /\ signal # <<>>
    /\ signal[1].rearmed
    /\ signal[1].at = armedAt
    /\ now - armedAt < TimeoutMs - 60000
    /\ Cardinality(Timeouts(timers)) = 1

\* The document's visibility changes and handleVisibilityChange() runs.
VisibilityHandled == hidden' # hidden /\ "visibilitychange" \in domListeners
VisibilityEvent(h) == [ev |-> "visibility-change", data |-> [hidden |-> h]]
IdleEvent(since) ==
    [ev |-> "idle", data |-> [idleSince |-> since, timeoutMinutes |-> config.idleTimeoutMinutes]]
Count(evs, name) == Cardinality({i \in DOMAIN evs : evs[i].ev = name})

\* C27: a visibility change handled by the monitor emits exactly one
\* visibility-change event, first and with the new value of document.hidden;
\* when the document becomes visible on a running monitor that is not idle
\* and at least T ms after lastActivityTimestamp, the same call then sets
\* isIdle and emits idle, with lastActivityTimestamp and the timers as they
\* were.
C27_CatchUp ==
    [][VisibilityHandled =>
          /\ Count(emitted', "visibility-change") = 1
          /\ emitted'[1] = VisibilityEvent(hidden')
          /\ (~hidden' /\ isRunning /\ ~isIdle /\ now - lastActivity >= TimeoutMs) =>
                /\ emitted' = <<VisibilityEvent(FALSE), IdleEvent(lastActivity)>>
                /\ isIdle'
                /\ lastActivity' = lastActivity
                /\ timers' = timers
                /\ timer' = timer]_vars

\* The document has just become visible and the monitor went idle in the
\* handler, while its timeout is still pending.
C27_Witness ==
    /\ emitted = <<VisibilityEvent(FALSE), IdleEvent(lastActivity)>>
    /\ isIdle
    /\ isRunning
    /\ ~hidden
    /\ now - lastActivity >= TimeoutMs
    /\ Timeouts(timers) # {}

\* C28: when the document becomes visible and the idle branch of the handler
\* does not apply, lastActivityTimestamp is set to now and the timeout is
\* re-armed, however short the time since lastActivityTimestamp.
C28_Foreground ==
    [][(VisibilityHandled /\ ~hidden' /\ ~CatchUp) =>
          (lastActivity' = now /\ Rearmed)]_vars

\* The on() and off() calls made so far for handler h and event type e.
CallsOf(e, h) == {i \in DOMAIN calls : calls[i].ev = e /\ calls[i].handler = h}
Last(S) == CHOOSE i \in S : \A j \in S : j <= i
\* h is registered for e: the last of these calls was on().
RegisteredFor(e, h) == CallsOf(e, h) # {} /\ calls[Last(CallsOf(e, h))].op = "on"
\* The on() call that registered h for e: the first one after the last off().
RegisteredBy(e, h) ==
    CHOOSE i \in CallsOf(e, h) :
        /\ \A j \in CallsOf(e, h) : j >= i => calls[j].op = "on"
        /\ \A j \in CallsOf(e, h) : j < i => \E k \in CallsOf(e, h) : k >= j /\ k < i /\ calls[k].op = "off"
Times_(q, h) == Cardinality({i \in DOMAIN q : q[i] = h})

\* C29: emit(e) calls each handler registered for e (its last on()/off() call
\* for e was on()) exactly once and no other handler, those registered
\* earlier first; registrations for other event types and handlers removed
\* with off() get no call.
C29_Dispatch ==
    [][\A e \in GuardianEvents : EmitEvent(e) =>
          LET q == invoked'[1].handlers IN
          /\ invoked'[1].ev = e
          /\ \A h \in Handlers : Times_(q, h) = IF RegisteredFor(e, h) THEN 1 ELSE 0
          /\ \A i, j \in DOMAIN q : i < j => RegisteredBy(e, q[i]) < RegisteredBy(e, q[j])]_vars

\* An emission has called handler 2 and then handler 1 (registered first,
\* removed with off() and registered again), and nothing else.
C29_Witness ==
    /\ invoked # <<>>
    /\ invoked[1].handlers = <<2, 1>>
    /\ \E i \in DOMAIN calls : /\ calls[i] = [op |-> "off", ev |-> invoked[1].ev, handler |-> 1]
                               /\ \E j \in DOMAIN calls : j < i /\ calls[j].op = "on" /\ calls[j].handler = 1
                                                             /\ calls[j].ev = invoked[1].ev

Alternating(q) == \A i \in DOMAIN q : i > 1 => q[i] # q[i - 1]

\* C30: a step emits idle (once) exactly when it takes isIdle from false to
\* true, and active (once) exactly when it takes isIdle from true to false;
\* each idle or active event differs from the one emitted before it, and the
\* first of them is idle.
C30_Alternate ==
    [][/\ Count(emitted', "idle") = (IF ~isIdle /\ isIdle' THEN 1 ELSE 0)
       /\ Count(emitted', "active") = (IF isIdle /\ ~isIdle' THEN 1 ELSE 0)
       /\ Alternating(transitions \o IdleActive(emitted'))
       /\ (transitions = <<>> /\ IdleActive(emitted') # <<>>) => IdleActive(emitted')[1] = "idle"]_vars

\* idle has just been emitted again, after an active event.
C30_Witness ==
    /\ transitions = <<"active", "idle">>
    /\ isIdle
    /\ Count(emitted, "idle") = 1

\* C35: while isIdle is true at least T ms have passed since lastActivity and
\* getTimeRemaining() is 0; an idle event is emitted at least T ms after its
\* idleSince, which is lastActivity.
C35_IdleAfterTimeout ==
    /\ isIdle => /\ now - lastActivity >= config.idleTimeoutMinutes * 60000
                 /\ GetTimeRemaining = 0
    /\ \A n \in DOMAIN emitted : emitted[n].ev = "idle" =>
          /\ emitted[n].data.idleSince = lastActivity
          /\ now - emitted[n].data.idleSince >= config.idleTimeoutMinutes * 60000

\* The timeout armed by start(), some time after the last activity, has fired:
\* idle is emitted more than T ms after idleSince.
C35_Witness ==
    /\ isIdle
    /\ isRunning
    /\ emitted = <<IdleEvent(lastActivity)>>
    /\ now = armedAt + TimeoutMs
    /\ now - lastActivity > TimeoutMs
    /\ GetTimeRemaining = 0

\* The monitor is running and not idle, its timer was armed at tick n and the
\* timeout comes due within the run.
ActiveSince(n) ==
    /\ isRunning
    /\ ~isIdle
    /\ armedAt = n * TickMs
    /\ armedAt + TimeoutMs <= MaxTime
\* The monitor is idle or stopped, or its timer was armed at another time.
IdleOrArmedAgain(n) == isIdle \/ ~isRunning \/ armedAt # n * TickMs

\* C36: a running monitor that is not idle has a pending timeout, the one of
\* its last arming; and unless it is stopped or the timer is armed again at
\* another time, it becomes idle (within the time the run covers).
C36_BecomesIdle ==
    /\ []((isRunning /\ ~isIdle) => TimeoutPendingAt(armedAt + TimeoutMs))
    /\ \A n \in 0..MaxTicks : ActiveSince(n) ~> IdleOrArmedAgain(n)

\* The monitor, left alone since start(), has gone idle when its timeout fired.
C36_Witness ==
    /\ isRunning
    /\ isIdle
    /\ quietRun # <<>>
    /\ quietRun[1].t0 = armedAt
    /\ now = armedAt + TimeoutMs
    /\ Count(emitted, "idle") = 1

\* C37: when idle is emitted, the last call of handleActivity() (by an
\* activity signal on the running monitor, ignored by the throttle or not, or
\* by a return to the foreground), and so every one before it, lies at least
\* T - activityThrottleMs back.
C37_ThrottleBound ==
    (Count(emitted, "idle") > 0 /\ signal # <<>>) =>
        now - signal[1].at >= config.idleTimeoutMinutes * 60000 - config.activityThrottleMs

\* idle is emitted less than T after an activity signal, which the throttle
\* ignored.
C37_Witness ==
    /\ Count(emitted, "idle") = 1
    /\ signal # <<>>
    /\ ~signal[1].rearmed
    /\ signal[1].at > lastActivity
    /\ now - signal[1].at < TimeoutMs
    /\ config.activityThrottleMs <= TimeoutMs

\* C38: while the monitor is running and not idle, getTimeRemaining() is the
\* time left until the pending timeout fires, and more than 0.
C38_RemainingIsTimer ==
    (isRunning /\ ~isIdle) =>
        /\ GetTimeRemaining > 0
        /\ TimeoutPendingAt(now + GetTimeRemaining)

\* The session is in its warning window: the monitor is running and not idle,
\* and its pending timeout fires within 60 s.
InWarningWindow ==
    /\ isRunning
    /\ ~isIdle
    /\ \E x \in Timeouts(timers) : x.id = timer /\ x.at > now /\ x.at - now <= 60000

\* C34: outside the warning window the adapters' warning value is null; when
\* reset(), an accepted activity signal or a return to the foreground arms
\* the timer again on a running monitor that is not idle, the value is null
\* afterwards.
C34_WarningValue ==
    [][/\ (isRunning' /\ ~InWarningWindow') => warningSeconds' = <<>>
       /\ (Rearmed /\ isRunning /\ ~isIdle) => warningSeconds' = <<>>]_vars

\* C22: getTimeRemaining() is T less the time since lastActivity, and 0 when
\* that is negative: it lies within 0..T and is 0 once T ms have passed since
\* lastActivity.
C22_TimeRemaining ==
    /\ GetTimeRemaining \in 0..(config.idleTimeoutMinutes * 60000)
    /\ now - lastActivity >= config.idleTimeoutMinutes * 60000 => GetTimeRemaining = 0
    /\ now - lastActivity < config.idleTimeoutMinutes * 60000 =>
          GetTimeRemaining + (now - lastActivity) = config.idleTimeoutMinutes * 60000

\* More than T ms have passed since lastActivity was last assigned, and
\* getTimeRemaining() is 0.
C22_Witness ==
    /\ now - lastActivity > TimeoutMs
    /\ lastActivity > 0
    /\ GetTimeRemaining = 0

\* C40: once remove(k) has returned and until set(k, ..) is called again,
\* the backend holds nothing under k: has(k) is false and get(k) finds no item.
C40_RemoveStays ==
    \A k \in gone : backend[BackendKey(k)] = Absent

\* ------------------------------------------ properties of TelemetryReporter

\* C18: the promise of a report() call (and so of info(), warning() and
\* critical(), which await it) is never rejected, and once the call is made
\* it resolves, whatever each fetch does.
C18_ReportResolves ==
    /\ [](\A i \in Incidents : reports[i].res # "rejected")
    /\ \A i \in Incidents : (reports[i].pc # "new") ~> (reports[i].res = "resolved")

\* A report() call has resolved when its fetch threw.
C18_Witness ==
    /\ lastFetch # <<>>
    /\ lastFetch[1].by = "report"
    /\ lastFetch[1].outcome = "throws"
    /\ reports[lastFetch[1].inc].pc = "done"
    /\ reports[lastFetch[1].inc].res = "resolved"

\* C19: the fetches made for an incident, by the report() call and by the
\* drain loops together, are at most maxRetries.
C19_AttemptsBounded ==
    \A i \in Incidents : attempts[i] <= reporterConfig.maxRetries

ActiveLoops == {l \in LoopIds : Active(l)}
Delivering == {l \in LoopIds : loops[l].pc \in {"fetch", "backoff"}}
\* A fetch has thrown in this step while isProcessing was set, and its
\* incident is to be retried.
FailedWhileDraining ==
    /\ lastFetch' # <<>>
    /\ lastFetch'[1].outcome = "throws"
    /\ lastFetch'[1].processing
    /\ MayRetry(lastFetch'[1].attempt)

\* C20: at most one drain loop is active and at most one send() of the backlog
\* is in flight; isProcessing is set exactly while a loop is active; a send
\* that fails while a loop is active appends its incident to the queue and
\* starts no loop.
C20_SingleDrain ==
    [][/\ Cardinality(ActiveLoops') <= 1
       /\ Cardinality(Delivering') <= 1
       /\ isProcessing' = (ActiveLoops' # {})
       /\ FailedWhileDraining =>
             /\ queue' = Append(queue, lastFetch'[1].inc)
             /\ ActiveLoops' = ActiveLoops]_vars

\* The fetch of a report() call has thrown while a drain loop was delivering
\* another incident: the incident waits in the queue.
C20_Witness ==
    /\ lastFetch # <<>>
    /\ lastFetch[1].by = "report"
    /\ lastFetch[1].outcome = "throws"
    /\ lastFetch[1].processing
    /\ queue = <<lastFetch[1].inc>>
    /\ Cardinality(Delivering) = 1
    /\ \A l \in Delivering : loops[l].inc # lastFetch[1].inc

\* The fetch of some send() ends in this step.
FetchEnds ==
    \/ \E i \in Incidents, o \in Outcomes : ReportFetchEnds(i, o)
    \/ \E l \in LoopIds, o \in Outcomes : LoopFetchEnds(l, o)
\* The send() whose fetch has just ended has returned / waits for its backoff.
SendReturned(f) ==
    \/ f.by = "report" /\ reports'[f.inc].pc = "done"
    \/ f.by = "loop" /\ \E l \in LoopIds : loops'[l].inc = f.inc /\ loops'[l].pc = "spacing"
SendBacksOff(f) ==
    \/ f.by = "report" /\ reports'[f.inc].pc = "backoff"
    \/ f.by = "loop" /\ \E l \in LoopIds : loops'[l].inc = f.inc /\ loops'[l].pc = "backoff"

\* C31: after a non-ok response send() waits 200 ms (first attempt) or
\* 400 ms (second attempt) and fetches again while retry is enabled and the
\* attempt is below maxRetries; it returns after attempt maxRetries, or after
\* the first attempt when retry is disabled; the send() of a report() whose
\* responses were all non-ok has then made exactly that many fetches.
C31_NonOk ==
    [][(FetchEnds /\ lastFetch'[1].outcome = "nonok") =>
          LET f == lastFetch'[1]
              last == IF reporterConfig.retry THEN reporterConfig.maxRetries ELSE 1
          IN  /\ f.attempt <= last
              /\ f.attempt < last =>
                    /\ SendBacksOff(f)
                    /\ f.attempt = 1 => f.wait = 200
                    /\ f.attempt = 2 => f.wait = 400
              /\ f.attempt = last =>
                    /\ SendReturned(f)
                    /\ f.wait = 0
                    /\ f.by = "report" => attempts'[f.inc] = last]_vars

\* A report() has ended after three non-ok responses, with the default
\* maxRetries.
C31_Witness ==
    /\ reporterConfig = [retry |-> TRUE, maxRetries |-> 3]
    /\ lastFetch # <<>>
    /\ lastFetch[1].by = "report"
    /\ lastFetch[1].outcome = "nonok"
    /\ lastFetch[1].attempt = 3
    /\ lastFetch[1].wait = 0
    /\ attempts[lastFetch[1].inc] = 3
    /\ reports[lastFetch[1].inc].pc = "done"

\* C32: send() waits for a backoff delay only after a fetch that threw, and
\* returns at once after a non-ok response.
C32_InlineRetry_OnThrow ==
    [][FetchEnds =>
          LET f == lastFetch'[1]
          IN  /\ SendBacksOff(f) => f.outcome = "throws"
              /\ f.outcome = "nonok" => (SendReturned(f) /\ f.wait = 0)]_vars

\* C32 (as the code has it): send() waits for a backoff delay, of
\* 2^attempt * 100 ms, exactly after a non-ok response with retry enabled and
\* attempt < maxRetries, and then fetches again with attempt + 1; after a
\* fetch that threw it returns without waiting.
C32_InlineRetry ==
    [][/\ FetchEnds =>
             LET f == lastFetch'[1]
                 may == reporterConfig.retry /\ f.attempt < reporterConfig.maxRetries
             IN  /\ SendBacksOff(f) <=> (f.outcome = "nonok" /\ may)
                 /\ SendReturned(f) <=> ~(f.outcome = "nonok" /\ may)
                 /\ f.wait = IF SendBacksOff(f) THEN (2 ^ f.attempt) * 100 ELSE 0
                 /\ f.outcome = "throws" => (SendReturned(f) /\ f.wait = 0)
       /\ \A i \in Incidents : reports[i].pc = "backoff" =>
             \/ reports'[i] = reports[i]
             \/ reports'[i] = [reports[i] EXCEPT !.pc = "fetch", !.attempt = @ + 1]
       /\ \A l \in LoopIds : loops[l].pc = "backoff" =>
             \/ loops'[l] = loops[l]
             \/ loops'[l] = [loops[l] EXCEPT !.pc = "fetch", !.attempt = @ + 1]]_vars

\* The first fetch of a report() has ended with a non-ok response, and its
\* send() waits 200 ms before it fetches again.
C32_Witness ==
    /\ lastFetch # <<>>
    /\ lastFetch[1].by = "report"
    /\ lastFetch[1].outcome = "nonok"
    /\ lastFetch[1].attempt = 1
    /\ lastFetch[1].wait = 200
    /\ reports[lastFetch[1].inc].pc = "backoff"

InQueue(q) == {q[n] : n \in DOMAIN q}
\* The incidents whose fetch is in flight or whose send() waits to fetch again.
Sending(rs, ls) ==
    {i \in Incidents : rs[i].pc \in {"fetch", "backoff"}}
        \cup {ls[l].inc : l \in {k \in LoopIds : ls[k].pc \in {"fetch", "backoff"}}}
\* The step pushes incident i onto the queue; a drain loop that the push
\* starts shifts the head of the queue at once.
Pushes(i) ==
    \/ queue' = Append(queue, i)
    \/ /\ Append(queue, i) = <<Head(Append(queue, i))>> \o queue'
       /\ ~isProcessing
       /\ isProcessing'
       /\ \E l \in LoopIds : /\ loops[l].pc = "off"
                             /\ loops'[l] = [pc |-> "fetch", inc |-> Head(Append(queue, i)), attempt |-> 1]

\* C33: an incident is pushed onto the queue exactly when a fetch for it
\* throws with retry enabled and attempt < maxRetries; no other step makes the
\* queue longer, starts a drain loop or sets isProcessing: not a non-ok or ok
\* response, and not an exception with attempt = maxRetries or with retry
\* disabled, after which the incident is neither queued nor in flight; and no
\* fetch is made, and no place in the queue held, for an incident that has
\* had an ok response.
C33_Enqueue ==
    [][/\ FetchEnds =>
             LET f == lastFetch'[1] IN
             IF f.outcome = "throws" /\ reporterConfig.retry /\ f.attempt < reporterConfig.maxRetries
             THEN Pushes(f.inc)
             ELSE /\ queue' = queue
                  /\ isProcessing' = isProcessing
                  /\ \A l \in LoopIds : loops[l].pc = "off" => loops'[l] = loops[l]
                  /\ f.outcome = "throws" => f.inc \notin InQueue(queue') \cup Sending(reports', loops')
       /\ ~FetchEnds => /\ Len(queue') <= Len(queue)
                        /\ InQueue(queue') \subseteq InQueue(queue)
       /\ \A i \in delivered' : /\ i \notin InQueue(queue') \cup Sending(reports', loops')
                                /\ i \in delivered => attempts'[i] = attempts[i]]_vars

\* A fetch made by the drain loop threw on its last allowed attempt: the
\* incident, queued once before, is dropped, while the other incident has
\* had its ok response.
C33_Witness ==
    /\ lastFetch # <<>>
    /\ lastFetch[1].by = "loop"
    /\ lastFetch[1].outcome = "throws"
    /\ reporterConfig.retry
    /\ lastFetch[1].attempt = reporterConfig.maxRetries
    /\ lastFetch[1].attempt > 1
    /\ lastFetch[1].inc \notin InQueue(queue)
    /\ delivered = Incidents \ {lastFetch[1].inc}

\* C39: between the steps of the event loop, a queue that is not empty has
\* its drain loop: isProcessing is true and a processQueue() activation is
\* fetching, backing off or in its one-second pause; isProcessing is true
\* only while such an activation exists.
C39_NoLostWakeup ==
    /\ queue # <<>> => (isProcessing /\ \E l \in LoopIds : Active(l))
    /\ isProcessing <=> \E l \in LoopIds : Active(l)

\* An incident was pushed while the drain loop was in its one-second pause.
C39_Witness ==
    /\ queue # <<>>
    /\ isProcessing
    /\ lastFetch # <<>>
    /\ lastFetch[1].by = "report"
    /\ lastFetch[1].outcome = "throws"
    /\ queue[Len(queue)] = lastFetch[1].inc
    /\ \E l \in LoopIds : loops[l].pc = "spacing"
    /\ \A l \in LoopIds : loops[l].pc \in {"spacing", "off"}

\* C23: the incident of info(event, meta), warning(event, meta) or
\* critical(event, meta) has the type INFO, WARNING or CRITICAL, its
\* payload.event is the event name of the call, whatever fields meta has, and
\* every other field of meta is in the payload with its value.
C23_Levels ==
    output # <<>> =>
        LET incident == output[1] IN
        /\ incident.type = (CASE input.level = "info" -> "INFO"
                              [] input.level = "warning" -> "WARNING"
                              [] input.level = "critical" -> "CRITICAL")
        /\ incident.payload["event"] = input.event
        /\ \A f \in DOMAIN input.meta \ {"event"} :
              f \in DOMAIN incident.payload /\ incident.payload[f] = input.meta[f]

\* ---------------------------------------- properties of DeviceFingerprinter

\* The eight designated fields, in their order.
Designated ==
    <<"screenResolution", "colorDepth", "timezone", "language", "platform",
      "hardwareConcurrency", "canvasHash", "webglRenderer">>
Undesignated ==
    {"collectedAt", "languages", "deviceMemory", "touchSupport", "timezoneOffset",
     "webglVendor"}
Unequal(f) == input.current[f] # input.previous[f]
\* current with its undesignated fields replaced by those of the base fingerprint.
WithoutOthers(fp) ==
    [f \in DOMAIN fp |-> IF f \in Undesignated THEN BaseFingerprint[f] ELSE fp[f]]

\* C21: compare() returns as mismatches the unequal designated fields in
\* their order and as similarity the equal ones over 8 (null equal to null),
\* so that 8 * similarity + length(mismatches) = 8; the other fields of the
\* fingerprints do not change the result.
C21_Compare ==
    output # <<>> =>
        LET r == output[1] IN
        /\ r.mismatches = SelectSeq(Designated, Unequal)
        /\ r.similarity.den = 8
        /\ r.similarity.num = Cardinality({n \in 1..8 : ~Unequal(Designated[n])})
        /\ 8 * r.similarity.num + Len(r.mismatches) * r.similarity.den = 8 * r.similarity.den
        /\ r = CompareFingerprints(WithoutOthers(input.current), WithoutOthers(input.previous))

\* Two fingerprints that differ in four designated fields and in all the
\* others, with webglRenderer null in both: similarity 4/8.
C21_Witness ==
    /\ output # <<>>
    /\ output[1].similarity = [num |-> 4, den |-> 8]
    /\ output[1].mismatches = <<"screenResolution", "timezone", "language", "canvasHash">>
    /\ input.current.webglRenderer = Null
    /\ input.previous.webglRenderer = Null
    /\ \A f \in Undesignated : Unequal(f)

====
